---- MODULE Spec2Model ----
(***************************************************************************)
(* SimpleChat server (src/tp8/src/main.rs): the registry of users, rooms   *)
(* and connection handles, the per-connection session loop and the room    *)
(* broadcast, with the three std::sync::Mutex guards made explicit.        *)
(*                                                                         *)
(* A handler runs under the `users` or the `rooms` mutex from its first    *)
(* registry access to its return, so each handler is one atomic action.    *)
(* What is not atomic is a handler that never returns: a thread that locks *)
(* a std::sync::Mutex it already holds either blocks forever or panics     *)
(* (std leaves the choice open), and both outcomes are modelled.           *)
(* The timestamp of a message and the human-readable text of an ack are    *)
(* not part of the model; duplicating a socket handle (try_clone) is       *)
(* assumed to succeed.  A peer that stops reading (a stalled peer) makes   *)
(* write_all on its stream block; it is taken to stay stalled and open.    *)
(*                                                                         *)
(* The codec (ProtocolMessage::serialize, deserialize_from_stream) is      *)
(* modelled byte by byte in CodecSpec, where messages carry every field.   *)
(* The client (ChatClient, run_client) is modelled in ClientSpec with its  *)
(* main thread and its listener thread reading one connection.             *)
(***************************************************************************)
EXTENDS Integers, Sequences, FiniteSets, TLC

\* ---------------------------------------------------------------- bounds
\* frames all peers together put on the wire
MaxFrames == 3
\* frames one peer may have in flight, written and not yet read
MaxInbox == 2
\* frames all peers together put on the wire in JoinSpec
MaxJoinFrames == 5
\* frames all peers together put on the wire in RoomSpec
MaxRoomFrames == 4
\* frames all peers together put on the wire in StallSpec
MaxStallFrames == 3
\* frames all peers together put on the wire in ExitSpec
MaxExitFrames == 3

Sessions == {"s1", "s2"}
Usernames == {"alice", "bob"}
RoomNames == {"general", "dev"}
Contents == {"hi"}
None == "none"
Mutexes == {"users", "rooms", "connections"}

\* -------------------------------------------------------------- messages
Connect(u) == [type |-> "Connect", username |-> u]
JoinRoom(r) == [type |-> "JoinRoom", room |-> r]
SendMessage(r, c) == [type |-> "SendMessage", room |-> r, content |-> c]
ListRooms == [type |-> "ListRooms"]
ListUsers(r) == [type |-> "ListUsers", room |-> r]
Disconnect == [type |-> "Disconnect"]
ConnectAck(b) == [type |-> "ConnectAck", success |-> b]
JoinRoomAck(b, r) == [type |-> "JoinRoomAck", success |-> b, room |-> r]
MessageBroadcast(r, u, c) ==
    [type |-> "MessageBroadcast", room |-> r, username |-> u, content |-> c]
RoomList(rs) == [type |-> "RoomList", rooms |-> rs]
UserList(r, us) == [type |-> "UserList", room |-> r, users |-> us]
Error(m) == [type |-> "Error", message |-> m]
UserJoined(r, u) == [type |-> "UserJoined", room |-> r, username |-> u]
UserLeft(r, u) == [type |-> "UserLeft", room |-> r, username |-> u]
\* a frame whose payload bincode cannot deserialize
Malformed == [type |-> "Malformed"]
\* the end of the stream, as the loop of handle_client sees it
EndOfStream == [type |-> "EndOfStream"]
NoFrame == [type |-> "none"]
NoReply == [type |-> "none"]

\* what a peer may put on the wire: the six client messages, one message of
\* a server-only type, and a frame that does not deserialize
ClientFrames ==
    {Connect(u) : u \in Usernames} \cup {JoinRoom(r) : r \in RoomNames}
    \cup {SendMessage(r, c) : r \in RoomNames, c \in Contents}
    \cup {ListRooms, Disconnect, ConnectAck(TRUE), Malformed}
    \cup {ListUsers(r) : r \in RoomNames}

\* the frames of the peers of JoinSpec
JoinFrames ==
    {Connect(u) : u \in Usernames} \cup {JoinRoom(r) : r \in RoomNames}

\* the frames of the peers of RoomSpec
RoomFrames ==
    JoinFrames \cup {SendMessage(r, c) : r \in RoomNames, c \in Contents}

\* the frames of the peers of ExitSpec
ExitFrames == JoinFrames \cup {Disconnect, Malformed}

\* the frames of the peers of StallSpec
StallFrames ==
    {Connect(u) : u \in Usernames} \cup {ListRooms}
    \cup {ListUsers(r) : r \in RoomNames}

\* ----------------------------------------------------------------- state
VARIABLES
    users,          \* ChatServer.users: username -> User
    rooms,          \* ChatServer.rooms: room -> Vec of usernames
    connections,    \* ChatServer.connections: username -> session whose stream was cloned
    current_user,   \* handle_client's local current_user, per session
    pc,             \* position of each session thread
    held,           \* mutex -> session whose stuck thread owns it, or None
    poisoned,       \* mutexes whose guard was dropped by a panicking thread
    inbox,          \* frames the peer wrote that the session has not read yet
    peerClosed,     \* the peer closed or reset its end of the connection
    outbox,         \* per session: the frames broadcast_to_room delivered to
                    \* its peer, in write order
    sent,           \* number of frames written by all peers so far
    last,           \* per session: the last frame it dispatched, the user and
                    \* that user's room at that moment, and the direct reply
                    \* that reached the peer
    registered,     \* per session: the usernames it registered so far
    issued,         \* the events broadcast_to_room went through, in order
    cleanups,       \* per session: the number of calls of cleanup_user
    stalled,        \* the sessions whose peer does not accept writes
    client,         \* per session: the ChatClient at the other end, if the
                    \* peer is one: its fields, the position of run_client,
                    \* and the frames on the wire towards it
    wire,           \* codec: the bytes written to a stream and not read yet
    encoded,        \* codec: the messages serialized to the stream, in order
    decoded,        \* codec: the results of deserialize_from_stream, in order
    thread          \* per session thread, where a handler is followed step by
                    \* step: the stream it is writing to, the streams its
                    \* broadcast has still to write to, the mutexes it has
                    \* still to lock and those it locked, in order

vars == <<users, rooms, connections, current_user, pc, held, poisoned,
          inbox, peerClosed, outbox, sent, last, registered, issued,
          cleanups, stalled, client, wire, encoded, decoded, thread>>

User(u, r) == [username |-> u, current_room |-> r]

\* HashMap::new()
EmptyMap == [x \in {} |-> None]

\* the peer of a session that is not a ChatClient
NoClient ==
    [pc |-> "absent", stream |-> FALSE, username |-> None,
     current_room |-> None, listening |-> FALSE, request |-> NoFrame,
     result |-> None, rx |-> <<>>, broken |-> FALSE]

\* a thread that is in no write and follows no lock sequence
Idle == [to |-> None, rest |-> <<>>, wants |-> <<>>, got |-> <<>>]

Init ==
    /\ users = EmptyMap
    /\ rooms = EmptyMap
    /\ connections = EmptyMap
    /\ current_user = [s \in Sessions |-> None]
    /\ pc = [s \in Sessions |-> "unaccepted"]
    /\ held = [m \in Mutexes |-> None]
    /\ poisoned = {}
    /\ inbox = [s \in Sessions |-> <<>>]
    /\ peerClosed = [s \in Sessions |-> FALSE]
    /\ outbox = [s \in Sessions |-> <<>>]
    /\ sent = 0
    /\ last = [s \in Sessions |->
                 [msg |-> NoFrame, user |-> None, room |-> None, reply |-> NoReply]]
    /\ registered = [s \in Sessions |-> {}]
    /\ issued = <<>>
    /\ cleanups = [s \in Sessions |-> 0]
    /\ stalled = {}
    /\ client = [s \in Sessions |-> NoClient]
    /\ wire = <<>>
    /\ encoded = <<>>
    /\ decoded = <<>>
    /\ thread = [s \in Sessions |-> Idle]

\* --------------------------------------------------------------- helpers
\* Vec::retain(|x| x != u)
RECURSIVE Retain(_, _)
Retain(list, u) ==
    IF list = <<>> THEN <<>>
    ELSE IF Head(list) = u THEN Retain(Tail(list), u)
    ELSE <<Head(list)>> \o Retain(Tail(list), u)

Contains(list, u) == \E i \in 1..Len(list) : list[i] = u
Count(list, u) == Cardinality({i \in 1..Len(list) : list[i] = u})

\* HashMap::insert / HashMap::remove
Insert(map, k, v) == [x \in DOMAIN map \cup {k} |-> IF x = k THEN v ELSE map[x]]
Remove(map, k) == [x \in DOMAIN map \ {k} |-> map[x]]

\* CurrentRoomOf as it would be if an unknown user were taken to be in the
\* room "general" (a default record in place of the None of users.get)
CurrentRoomOfDefault(us, u) ==
    IF u \in DOMAIN us THEN us[u].current_room ELSE "general"

\* user.current_room of a registered user, None for an unknown user
CurrentRoomOf(us, u) == IF u \in DOMAIN us THEN us[u].current_room ELSE None

\* the write of line 388 as it would be if a frame could overtake the frames
\* written before it
DeliverFront(ob, t, m) ==
    IF peerClosed[t] THEN ob ELSE [ob EXCEPT ![t] = <<m>> \o @]

\* write_all + flush on the stream of session t by broadcast_to_room: the
\* frame reaches the peer unless the peer is gone
Deliver(ob, t, m) ==
    IF peerClosed[t] THEN ob ELSE [ob EXCEPT ![t] = Append(@, m)]

\* a direct reply on the session's own stream, as the peer gets it.  When
\* the peer is gone the write is lost or fails; if it fails the handler
\* returns Err and handle_client sends an Error on the same stream, which is
\* lost too.  When the peer is stalled nothing reaches it
Reply(s, m) == IF peerClosed[s] \/ s \in stalled THEN NoReply ELSE m

\* a write on the session's own stream may only fail when the peer is gone
WriteOutcomes(s) == IF peerClosed[s] THEN BOOLEAN ELSE {TRUE}

\* Mutex::lock().unwrap() on a mutex this thread does not hold
TryLock(m) ==
    IF held[m] # None THEN "block"
    ELSE IF m \in poisoned THEN "panic"
    ELSE "ok"

\* Mutex::lock() by a thread that holds the set H of mutexes: true when the
\* thread already owns m
Relock(H, m) == m \in H
\* what std::sync::Mutex may do then
RelockOutcomes == {"deadlock", "panic"}

\* broadcast_to_room lines 374-375, called by a thread holding H
BroadcastLock(H) ==
    IF Relock(H, "rooms") THEN "relock"
    ELSE IF TryLock("rooms") # "ok" THEN TryLock("rooms")
    ELSE IF Relock(H, "connections") THEN "relock"
    ELSE TryLock("connections")

\* the mutexes the caller holds when BroadcastLock(H) does not return "ok"
BroadcastHolding(H) ==
    IF Relock(H, "rooms") \/ TryLock("rooms") # "ok" THEN H
    ELSE H \cup {"rooms"}

\* the loop of broadcast_to_room as it would be if a failed write ended it
\* (`?` in place of `let _ =` at line 388)
RECURSIVE SendEachAbort(_, _, _, _, _)
SendEachAbort(ob, conns, members, m, exclude) ==
    IF members = <<>> THEN ob
    ELSE LET u == Head(members) IN
         IF u = exclude \/ u \notin DOMAIN conns
         THEN SendEachAbort(ob, conns, Tail(members), m, exclude)
         ELSE IF peerClosed[conns[u]] THEN ob
         ELSE SendEachAbort(Deliver(ob, conns[u], m), conns, Tail(members), m,
                            exclude)

\* broadcast_to_room lines 380-390: one write per member, in list order,
\* skipping `exclude` and members without a connection handle
RECURSIVE SendEach(_, _, _, _, _)
SendEach(ob, conns, members, m, exclude) ==
    IF members = <<>> THEN ob
    ELSE LET u == Head(members)
             ob1 == IF u # exclude /\ u \in DOMAIN conns
                    THEN Deliver(ob, conns[u], m) ELSE ob
         IN SendEach(ob1, conns, Tail(members), m, exclude)

\* broadcast_to_room as it would be if it served the member list of every
\* room instead of the one of `room` (line 377)
RECURSIVE BroadcastOutEvery(_, _, _, _, _, _)
BroadcastOutEvery(ob, rms, conns, room, m, exclude) ==
    IF DOMAIN rms = {} THEN ob
    ELSE LET r == CHOOSE x \in DOMAIN rms : TRUE IN
         BroadcastOutEvery(SendEach(ob, conns, rms[r], m, exclude),
                           [x \in DOMAIN rms \ {r} |-> rms[x]],
                           conns, room, m, exclude)

\* broadcast_to_room lines 377-391
BroadcastOut(ob, rms, conns, room, m, exclude) ==
    IF room \in DOMAIN rms THEN SendEach(ob, conns, rms[room], m, exclude) ELSE ob

\* broadcast_to_room lines 388 and 393: the result of each write is dropped
\* (`let _ =`) and the function ends with Ok(()), so no failed write makes
\* the broadcast an error for its caller
BroadcastErr(conns, members, exclude) == FALSE

\* history: broadcast_to_room took its locks and, the room being known, made
\* message m for it (line 378)
Issue(log, rms, room, m) ==
    IF room \in DOMAIN rms THEN Append(log, m) ELSE log

\* how a thread that cannot take a lock ends: res is "block", "panic" or
\* "relock" (resolved by `how`); H is what it holds at that point
StuckAs(res, how) == IF res = "relock" THEN how ELSE res

Stuck(s, res, how, H) ==
    LET end == StuckAs(res, how) IN
    /\ pc' = [pc EXCEPT ![s] =
                IF end = "panic" THEN "panicked"
                ELSE IF end = "deadlock" THEN "deadlocked" ELSE "blocked"]
    /\ held' = IF end = "panic" THEN held
               ELSE [m \in Mutexes |-> IF m \in H THEN s ELSE held[m]]
    /\ poisoned' = IF end = "panic" THEN poisoned \cup H ELSE poisoned

\* the handler returns to the loop of handle_client
Returns(s) == UNCHANGED <<pc, held, poisoned>>

\* send_message lines 398-399 on a stream whose peer is stalled: the thread
\* stays in write_all, with the guards H of its callers alive
Writing(s, H) ==
    /\ pc' = [pc EXCEPT ![s] = "writing"]
    /\ held' = [m \in Mutexes |-> IF m \in H THEN s ELSE held[m]]
    /\ UNCHANGED poisoned

\* a handler whose last statement is a direct reply, written under H
Written(s, H) == IF s \in stalled THEN Writing(s, H) ELSE Returns(s)

\* broadcast_to_room lines 380-390: the members served before the loop
\* reaches a recipient whose peer is stalled
RECURSIVE UpToStalled(_, _, _)
UpToStalled(conns, members, exclude) ==
    IF members = <<>> THEN <<>>
    ELSE LET u == Head(members) IN
         IF u # exclude /\ u \in DOMAIN conns /\ conns[u] \in stalled THEN <<>>
         ELSE <<u>> \o UpToStalled(conns, Tail(members), exclude)

\* broadcast_to_room: the loop blocks in a write to a stalled peer
WriteBlocks(rms, conns, room, exclude) ==
    /\ room \in DOMAIN rms
    /\ UpToStalled(conns, rms[room], exclude) # rms[room]

\* deserialize_from_stream: the head frame is decoded; the BufReader made
\* for this call may have read frames behind it, which are dropped with it
Reads(s, types) ==
    /\ pc[s] = "reading"
    /\ inbox[s] # <<>>
    /\ Head(inbox[s]).type \in types
    /\ \E k \in 0..(Len(inbox[s]) - 1) :
          inbox' = [inbox EXCEPT ![s] = SubSeq(@, 2 + k, Len(@))]

\* history: session s dispatched m and its peer got the direct reply r
Dispatched(s, m, r) ==
    last' = [last EXCEPT ![s] =
               [msg |-> m, user |-> current_user[s],
                room |-> CurrentRoomOf(users, current_user[s]), reply |-> r]]

\* the frames a handler of session s wrote, put on the wire of each peer that
\* is a ChatClient: the broadcast frames added to its outbox, then, for s
\* itself, the direct reply
Wire(s) ==
    /\ client' =
          [t \in Sessions |->
             IF client[t].pc = "absent" THEN client[t]
             ELSE [client[t] EXCEPT !.rx =
                     @ \o SubSeq(outbox'[t], Len(outbox[t]) + 1, Len(outbox'[t]))
                       \o (IF t = s /\ last'[s].reply # NoReply
                           THEN <<last'[s].reply>> ELSE <<>>)]]
    /\ UNCHANGED <<wire, encoded, decoded, thread>>

\* ------------------------------------------------------------ environment
\* start: the listener accepts a connection and spawns its thread
Accept(s) ==
    /\ pc[s] = "unaccepted"
    /\ pc' = [pc EXCEPT ![s] = "reading"]
    /\ UNCHANGED <<users, rooms, connections, current_user, held, poisoned,
                   inbox, peerClosed, outbox, sent, last, registered, issued,
                   cleanups, stalled>>
    /\ UNCHANGED <<client, wire, encoded, decoded, thread>>

\* a peer writes frame m, within a budget of max frames for all peers.
\* Frames written to a connection whose thread has ended are left out: no
\* one reads them
Send(s, m, max) ==
    /\ pc[s] \in {"reading", "deadlocked", "blocked", "writing"}
    /\ ~peerClosed[s]
    /\ Len(inbox[s]) < MaxInbox
    /\ sent < max
    /\ inbox' = [inbox EXCEPT ![s] = Append(@, m)]
    /\ sent' = sent + 1
    /\ UNCHANGED <<users, rooms, connections, current_user, pc, held,
                   poisoned, peerClosed, outbox, last, registered, issued,
                   cleanups, stalled>>
    /\ UNCHANGED <<client, wire, encoded, decoded, thread>>

ClientSend(s, m) == Send(s, m, MaxFrames)

JoinSend(s, m) == Send(s, m, MaxJoinFrames)

RoomSend(s, m) == Send(s, m, MaxRoomFrames)

StallSend(s, m) == Send(s, m, MaxStallFrames)

ExitSend(s, m) == Send(s, m, MaxExitFrames)

\* the peer of s stops reading and its socket buffers are full
Stall(s) ==
    /\ pc[s] # "unaccepted"
    /\ ~peerClosed[s]
    /\ s \notin stalled
    /\ stalled' = stalled \cup {s}
    /\ UNCHANGED <<users, rooms, connections, current_user, pc, held,
                   poisoned, inbox, peerClosed, outbox, sent, last, registered,
                   issued, cleanups>>
    /\ UNCHANGED <<client, wire, encoded, decoded, thread>>

PeerClose(s) ==
    /\ pc[s] # "unaccepted"
    /\ ~peerClosed[s]
    /\ s \notin stalled
    /\ peerClosed' = [peerClosed EXCEPT ![s] = TRUE]
    /\ UNCHANGED <<users, rooms, connections, current_user, pc, held,
                   poisoned, inbox, outbox, sent, last, registered, issued,
                   cleanups, stalled>>
    /\ UNCHANGED <<client, wire, encoded, decoded, thread>>

\* ----------------------------------------------------------------- server
\* handle_connect line 230
ConnectTaken(us, u) == u \in DOMAIN us

HandleConnect(s) ==
    /\ Reads(s, {"Connect"})
    /\ LET m == Head(inbox[s])
           u == m.username
       IN
       IF TryLock("users") # "ok" THEN
           /\ Stuck(s, TryLock("users"), "panic", {})
           /\ Dispatched(s, m, NoReply)
           /\ UNCHANGED <<users, connections, current_user, registered>>
       ELSE IF ConnectTaken(users, u) THEN
           /\ Dispatched(s, m, Reply(s, ConnectAck(FALSE)))
           /\ Written(s, {"users"})
           /\ UNCHANGED <<users, connections, current_user, registered>>
       ELSE IF TryLock("connections") # "ok" THEN
           /\ users' = Insert(users, u, User(u, None))
           /\ Stuck(s, TryLock("connections"), "panic", {"users"})
           /\ Dispatched(s, m, NoReply)
           /\ UNCHANGED <<connections, current_user, registered>>
       ELSE
           /\ users' = Insert(users, u, User(u, None))
           /\ connections' = Insert(connections, u, s)
           /\ current_user' = [current_user EXCEPT ![s] = u]
           /\ registered' = [registered EXCEPT ![s] = @ \cup {u}]
           /\ Dispatched(s, m, Reply(s, ConnectAck(TRUE)))
           /\ Written(s, {"users", "connections"})
    /\ UNCHANGED <<rooms, outbox, issued, peerClosed, sent, cleanups, stalled>>
    /\ Wire(s)

\* OldRoom as it would be if the join forgot to leave the previous room
OldRoomNone(us, rms, u) == None

\* handle_join_room lines 274-276: the room to leave, None when there is none
OldRoom(us, rms, u) ==
    LET r == CurrentRoomOf(us, u)
    IN IF r # None /\ r \in DOMAIN rms THEN r ELSE None

\* lines 277 and 412: room_users.retain(|u| u != username)
LeaveRoom(rms, room, u) ==
    IF room # None THEN [rms EXCEPT ![room] = Retain(@, u)] ELSE rms

\* line 288: rooms.entry(room).or_insert_with(Vec::new).push(username)
Push(rms, room, u) ==
    Insert(rms, room, (IF room \in DOMAIN rms THEN rms[room] ELSE <<>>) \o <<u>>)

\* lines 290-292
SetRoom(us, u, room) ==
    IF u \in DOMAIN us THEN [us EXCEPT ![u].current_room = room] ELSE us

HandleJoinRoom(s) ==
    /\ Reads(s, {"JoinRoom"})
    /\ LET m == Head(inbox[s])
           u == current_user[s]
           room == m.room
           H == {"users", "rooms"}
           old == OldRoom(users, rooms, u)
           rooms1 == LeaveRoom(rooms, old, u)
           b1 == IF old # None THEN BroadcastLock(H) ELSE "ok"
           out1 == IF old # None
                   THEN BroadcastOut(outbox, rooms1, connections, old,
                                     UserLeft(old, u), u)
                   ELSE outbox
           iss1 == IF old # None THEN Issue(issued, rooms1, old, UserLeft(old, u))
                   ELSE issued
           rooms2 == Push(rooms1, room, u)
           users2 == SetRoom(users, u, room)
           b2 == BroadcastLock(H)
           out2 == BroadcastOut(out1, rooms2, connections, room,
                                UserJoined(room, u), u)
       IN \E ok \in WriteOutcomes(s), how \in RelockOutcomes :
          IF u = None THEN
              \* process_message lines 180-185
              /\ Dispatched(s, m, Reply(s, Error("Non connecte")))
              /\ Written(s, {})
              /\ UNCHANGED <<users, rooms, outbox, issued>>
          ELSE IF TryLock("users") # "ok" THEN
              /\ Stuck(s, TryLock("users"), how, {})
              /\ Dispatched(s, m, NoReply)
              /\ UNCHANGED <<users, rooms, outbox, issued>>
          ELSE IF TryLock("rooms") # "ok" THEN
              /\ Stuck(s, TryLock("rooms"), how, {"users"})
              /\ Dispatched(s, m, NoReply)
              /\ UNCHANGED <<users, rooms, outbox, issued>>
          ELSE IF b1 # "ok" THEN
              \* stuck in the UserLeft broadcast of line 279
              /\ rooms' = rooms1
              /\ Stuck(s, b1, how, BroadcastHolding(H))
              /\ Dispatched(s, m, NoReply)
              /\ UNCHANGED <<users, outbox, issued>>
          ELSE IF s \in stalled THEN
              \* the ack of line 301 blocks
              /\ users' = users2
              /\ rooms' = rooms2
              /\ outbox' = out1
              /\ issued' = iss1
              /\ Dispatched(s, m, NoReply)
              /\ Writing(s, H)
          ELSE IF ~ok THEN
              \* the ack of line 301 fails: `?` returns before line 304
              /\ users' = users2
              /\ rooms' = rooms2
              /\ outbox' = out1
              /\ issued' = iss1
              /\ Dispatched(s, m, NoReply)
              /\ Returns(s)
          ELSE IF b2 # "ok" THEN
              \* stuck in the UserJoined broadcast of line 304
              /\ users' = users2
              /\ rooms' = rooms2
              /\ outbox' = out1
              /\ issued' = iss1
              /\ Dispatched(s, m, Reply(s, JoinRoomAck(TRUE, room)))
              /\ Stuck(s, b2, how, BroadcastHolding(H))
          ELSE
              /\ users' = users2
              /\ rooms' = rooms2
              /\ outbox' = out2
              /\ issued' = Issue(iss1, rooms2, room, UserJoined(room, u))
              /\ Dispatched(s, m, Reply(s, JoinRoomAck(TRUE, room)))
              /\ Returns(s)
    /\ UNCHANGED <<connections, current_user, peerClosed, sent, registered,
                   cleanups, stalled>>
    /\ Wire(s)

\* the test of lines 323-324 left out
InRoomAlways(us, u, room) == TRUE

\* handle_send_message lines 323-324
InRoom(us, u, room) == u \in DOMAIN us /\ us[u].current_room = room

HandleSendMessage(s) ==
    /\ Reads(s, {"SendMessage"})
    /\ LET m == Head(inbox[s])
           u == current_user[s]
           H == {"users"}
       IN \E how \in RelockOutcomes :
          IF u = None THEN
              \* process_message lines 191-196
              /\ Dispatched(s, m, Reply(s, Error("Non connecte")))
              /\ Written(s, {})
              /\ UNCHANGED <<outbox, issued>>
          ELSE IF TryLock("users") # "ok" THEN
              /\ Stuck(s, TryLock("users"), how, {})
              /\ Dispatched(s, m, NoReply)
              /\ UNCHANGED <<outbox, issued>>
          ELSE IF ~InRoom(users, u, m.room) THEN
              /\ Dispatched(s, m, NoReply)
              /\ Returns(s)
              /\ UNCHANGED <<outbox, issued>>
          ELSE IF BroadcastLock(H) # "ok" THEN
              /\ Stuck(s, BroadcastLock(H), how, BroadcastHolding(H))
              /\ Dispatched(s, m, NoReply)
              /\ UNCHANGED <<outbox, issued>>
          ELSE IF WriteBlocks(rooms, connections, m.room, None) THEN
              /\ issued' = Issue(issued, rooms, m.room,
                                 MessageBroadcast(m.room, u, m.content))
              /\ outbox' = SendEach(outbox, connections,
                                    UpToStalled(connections, rooms[m.room], None),
                                    MessageBroadcast(m.room, u, m.content), None)
              /\ Dispatched(s, m, NoReply)
              /\ Writing(s, Mutexes)
          ELSE
              /\ issued' = Issue(issued, rooms, m.room,
                                 MessageBroadcast(m.room, u, m.content))
              /\ outbox' = BroadcastOut(outbox, rooms, connections, m.room,
                                        MessageBroadcast(m.room, u, m.content),
                                        None)
              \* line 335: `?` hands an error of the broadcast to handle_client,
              \* which reports it to the sender (lines 141-147)
              /\ Dispatched(s, m,
                            IF m.room \in DOMAIN rooms
                               /\ BroadcastErr(connections, rooms[m.room], None)
                            THEN Reply(s, Error("write")) ELSE NoReply)
              /\ Returns(s)
    /\ UNCHANGED <<users, rooms, connections, current_user, peerClosed, sent,
                   registered, cleanups, stalled>>
    /\ Wire(s)

\* the orders in which HashMap::keys() may enumerate a key set
Orders(S) ==
    {q \in [1..Cardinality(S) -> S] : \A i, j \in DOMAIN q : q[i] = q[j] => i = j}

HandleListRooms(s) ==
    /\ Reads(s, {"ListRooms"})
    /\ IF TryLock("rooms") # "ok" THEN
           /\ Stuck(s, TryLock("rooms"), "panic", {})
           /\ Dispatched(s, Head(inbox[s]), NoReply)
       ELSE
           /\ \E q \in Orders(DOMAIN rooms) :
                 Dispatched(s, Head(inbox[s]), Reply(s, RoomList(q)))
           /\ Written(s, {"rooms"})
    /\ UNCHANGED <<users, rooms, connections, current_user, outbox, issued,
                   peerClosed, sent, registered, cleanups, stalled>>
    /\ Wire(s)

\* handle_list_users line 358: rooms.get(&room).cloned().unwrap_or_default()
UsersOf(rms, room) == IF room \in DOMAIN rms THEN rms[room] ELSE <<>>

\* the room map as it would be after a lookup that makes the entry it does
\* not find (rooms.entry(room).or_default() in place of rooms.get(&room))
RoomsEntry(rms, room) ==
    IF room \in DOMAIN rms THEN rms ELSE Insert(rms, room, <<>>)

\* handle_list_users line 358: the room map after rooms.get(&room), which
\* only reads it
RoomsGet(rms, room) == rms

HandleListUsers(s) ==
    /\ Reads(s, {"ListUsers"})
    /\ LET m == Head(inbox[s]) IN
       IF TryLock("rooms") # "ok" THEN
           /\ Stuck(s, TryLock("rooms"), "panic", {})
           /\ Dispatched(s, m, NoReply)
           /\ UNCHANGED rooms
       ELSE
           /\ rooms' = RoomsGet(rooms, m.room)
           /\ Dispatched(s, m, Reply(s, UserList(m.room, UsersOf(rooms, m.room))))
           /\ Written(s, {"rooms"})
    /\ UNCHANGED <<users, connections, current_user, outbox, issued,
                   peerClosed, sent, registered, cleanups, stalled>>
    /\ Wire(s)

\* process_message, `_` arm: a message of a server-only type
HandleUnsupported(s) ==
    /\ Reads(s, {"ConnectAck"})
    /\ Dispatched(s, Head(inbox[s]), Reply(s, Error("Message non supporte")))
    /\ Written(s, {})
    /\ UNCHANGED <<users, rooms, connections, current_user, outbox, issued,
                   peerClosed, sent, registered, cleanups, stalled>>
    /\ Wire(s)

\* the first mutex of cleanup_user lines 404-406 that cannot be taken, with
\* what is held at that point; "ok" when all three are taken
CleanupLock ==
    IF TryLock("users") # "ok" THEN <<TryLock("users"), {}>>
    ELSE IF TryLock("rooms") # "ok" THEN <<TryLock("rooms"), {"users"}>>
    ELSE IF TryLock("connections") # "ok"
         THEN <<TryLock("connections"), {"users", "rooms"}>>
    ELSE <<"ok", Mutexes>>

\* UserRoom as it would be if cleanup forgot the room of the user
UserRoomNone(us, rms, u) == None

\* cleanup_user lines 409-411: the room to leave, None when there is none
UserRoom(us, rms, u) ==
    LET r == CurrentRoomOf(us, u)
    IN IF r # None /\ r \in DOMAIN rms THEN r ELSE None

\* handle_client with the test of line 158 always failing
CleanupRunsNever(u) == FALSE

\* handle_client with cleanup_user called whatever current_user is
CleanupRunsAlways(u) == TRUE

\* handle_client line 158: cleanup_user is called for an authenticated session
CleanupRuns(u) == u # None

\* handle_client lines 157-163: the loop is left, cleanup_user runs for an
\* authenticated session, the thread ends
LoopExit(s) ==
    LET u == current_user[s]
        old == UserRoom(users, rooms, u)
        rooms1 == LeaveRoom(rooms, old, u)
        b == IF old # None THEN BroadcastLock(Mutexes) ELSE "ok"
        out1 == IF old # None
                THEN BroadcastOut(outbox, rooms1, connections, old,
                                  UserLeft(old, u), u)
                ELSE outbox
    IN \E how \in RelockOutcomes :
       IF ~CleanupRuns(u) THEN
           /\ pc' = [pc EXCEPT ![s] = "closed"]
           /\ UNCHANGED <<users, rooms, connections, held, poisoned, outbox,
                          issued, cleanups>>
       ELSE IF CleanupLock[1] # "ok" THEN
           /\ cleanups' = [cleanups EXCEPT ![s] = @ + 1]
           /\ Stuck(s, CleanupLock[1], how, CleanupLock[2])
           /\ UNCHANGED <<users, rooms, connections, outbox, issued>>
       ELSE IF b # "ok" THEN
           \* stuck in the UserLeft broadcast of line 414
           /\ cleanups' = [cleanups EXCEPT ![s] = @ + 1]
           /\ rooms' = rooms1
           /\ Stuck(s, b, how, BroadcastHolding(Mutexes))
           /\ UNCHANGED <<users, connections, outbox, issued>>
       ELSE
           /\ cleanups' = [cleanups EXCEPT ![s] = @ + 1]
           /\ rooms' = rooms1
           /\ users' = Remove(users, u)
           /\ connections' = Remove(connections, u)
           /\ outbox' = out1
           /\ issued' = IF old # None
                        THEN Issue(issued, rooms1, old, UserLeft(old, u))
                        ELSE issued
           /\ pc' = [pc EXCEPT ![s] = "closed"]
           /\ UNCHANGED <<held, poisoned>>

\* process_message line 208 returns Ok(false)
HandleDisconnect(s) ==
    /\ Reads(s, {"Disconnect"})
    /\ Dispatched(s, Head(inbox[s]), NoReply)
    /\ LoopExit(s)
    /\ UNCHANGED <<current_user, peerClosed, sent, registered, stalled>>
    /\ Wire(s)

\* deserialize_from_stream fails on a payload that does not deserialize
DecodeError(s) ==
    /\ Reads(s, {"Malformed"})
    /\ Dispatched(s, Head(inbox[s]), NoReply)
    /\ LoopExit(s)
    /\ UNCHANGED <<current_user, peerClosed, sent, registered, stalled>>
    /\ Wire(s)

\* read_exact fails: the peer is gone and nothing is left to read
StreamClosed(s) ==
    /\ pc[s] = "reading"
    /\ inbox[s] = <<>>
    /\ peerClosed[s]
    /\ Dispatched(s, EndOfStream, NoReply)
    /\ LoopExit(s)
    /\ UNCHANGED <<current_user, inbox, peerClosed, sent, registered, stalled>>
    /\ Wire(s)

Next ==
    \/ \E s \in Sessions : Accept(s)
    \/ \E s \in Sessions, m \in ClientFrames : ClientSend(s, m)
    \/ \E s \in Sessions : PeerClose(s)
    \/ \E s \in Sessions : HandleConnect(s)
    \/ \E s \in Sessions : HandleJoinRoom(s)
    \/ \E s \in Sessions : HandleSendMessage(s)
    \/ \E s \in Sessions : HandleListRooms(s)
    \/ \E s \in Sessions : HandleListUsers(s)
    \/ \E s \in Sessions : HandleUnsupported(s)
    \/ \E s \in Sessions : HandleDisconnect(s)
    \/ \E s \in Sessions : DecodeError(s)
    \/ \E s \in Sessions : StreamClosed(s)

Spec == Init /\ [][Next]_vars

\* peers that only connect and join rooms, with a larger budget of frames
JoinNext ==
    \/ \E s \in Sessions : Accept(s)
    \/ \E s \in Sessions, m \in JoinFrames : JoinSend(s, m)
    \/ \E s \in Sessions : PeerClose(s)
    \/ \E s \in Sessions : HandleConnect(s)
    \/ \E s \in Sessions : HandleJoinRoom(s)
    \/ \E s \in Sessions : StreamClosed(s)

JoinSpec == Init /\ [][JoinNext]_vars

\* peers that connect, join rooms and send messages
RoomNext ==
    \/ \E s \in Sessions : Accept(s)
    \/ \E s \in Sessions, m \in RoomFrames : RoomSend(s, m)
    \/ \E s \in Sessions : PeerClose(s)
    \/ \E s \in Sessions : HandleConnect(s)
    \/ \E s \in Sessions : HandleJoinRoom(s)
    \/ \E s \in Sessions : HandleSendMessage(s)
    \/ \E s \in Sessions : StreamClosed(s)

RoomSpec == Init /\ [][RoomNext]_vars

\* peers that connect, join rooms and end their session in each of the three
\* ways
ExitNext ==
    \/ \E s \in Sessions : Accept(s)
    \/ \E s \in Sessions, m \in ExitFrames : ExitSend(s, m)
    \/ \E s \in Sessions : PeerClose(s)
    \/ \E s \in Sessions : HandleConnect(s)
    \/ \E s \in Sessions : HandleJoinRoom(s)
    \/ \E s \in Sessions : HandleDisconnect(s)
    \/ \E s \in Sessions : DecodeError(s)
    \/ \E s \in Sessions : StreamClosed(s)

ExitSpec == Init /\ [][ExitNext]_vars

\* peers that connect and list, and may stall
StallNext ==
    \/ \E s \in Sessions : Accept(s)
    \/ \E s \in Sessions, m \in StallFrames : StallSend(s, m)
    \/ \E s \in Sessions : Stall(s)
    \/ \E s \in Sessions : HandleConnect(s)
    \/ \E s \in Sessions : HandleListRooms(s)
    \/ \E s \in Sessions : HandleListUsers(s)

StallSpec == Init /\ [][StallNext]_vars

\* the user each session connects as in BroadcastInit
Owner == [s \in Sessions |-> IF s = "s1" THEN "alice" ELSE "bob"]

\* the members of room r when the users D, with rooms roomOf, joined in the
\* order q
RECURSIVE Joined(_, _, _)
Joined(q, roomOf, r) ==
    IF q = <<>> THEN <<>>
    ELSE (IF roomOf[Head(q)] = r THEN <<Head(q)>> ELSE <<>>)
         \o Joined(Tail(q), roomOf, r)

\* broadcast_to_room as a function of the registry and of the streams: every
\* registry of connected users, each in at most one room, every set of peers
\* that are gone, and one SendMessage waiting in the stream of a connected
\* sender
BroadcastInit ==
    \E sender \in Sessions, target \in RoomNames, c \in Contents,
       D \in SUBSET Usernames, closed \in [Sessions -> BOOLEAN] :
      \E roomOf \in [D -> RoomNames \cup {None}], q \in Orders(D) :
        /\ Owner[sender] \in D
        /\ users = [u \in D |-> User(u, roomOf[u])]
        /\ rooms = [r \in {roomOf[u] : u \in D} \ {None} |-> Joined(q, roomOf, r)]
        /\ connections = [u \in D |-> CHOOSE s \in Sessions : Owner[s] = u]
        /\ current_user = [s \in Sessions |-> IF Owner[s] \in D THEN Owner[s] ELSE None]
        /\ pc = [s \in Sessions |-> "reading"]
        /\ held = [m \in Mutexes |-> None]
        /\ poisoned = {}
        /\ inbox = [s \in Sessions |->
                      IF s = sender THEN <<SendMessage(target, c)>> ELSE <<>>]
        /\ peerClosed = closed
        /\ outbox = [s \in Sessions |-> <<>>]
        /\ sent = 1
        /\ last = [s \in Sessions |->
                     [msg |-> NoFrame, user |-> None, room |-> None, reply |-> NoReply]]
        /\ registered = [s \in Sessions |-> IF Owner[s] \in D THEN {Owner[s]} ELSE {}]
        /\ issued = <<>>
        /\ cleanups = [s \in Sessions |-> 0]
        /\ stalled = {}
        /\ client = [s \in Sessions |-> NoClient]
        /\ wire = <<>>
        /\ encoded = <<>>
        /\ decoded = <<>>
        /\ thread = [s \in Sessions |-> Idle]

BroadcastNext == \E s \in Sessions : HandleSendMessage(s)

BroadcastSpec == BroadcastInit /\ [][BroadcastNext]_vars

\* ------------------------------------------------------------ vocabulary
\* the thread of s exists
Live(s) == pc[s] \in {"reading", "deadlocked", "blocked", "writing"}
\* the loop of handle_client was left by s
ExitTypes == {"Disconnect", "Malformed", "EndOfStream"}
LeftLoop(s) == last[s].msg.type \in ExitTypes
Members(r) == UsersOf(rooms, r)
InSomeRoom(u) == \E r \in DOMAIN rooms : Contains(rooms[r], u)
\* user v can be reached: it has a connection handle and its peer is there
Reachable(v) == v \in DOMAIN connections /\ ~peerClosed[connections[v]]
Got(v, m) == Count(outbox[connections[v]], m)
\* the places of u over all member lists
Occurrences(u) ==
    UNION {{<<r, i>> : i \in {j \in DOMAIN rooms[r] : rooms[r][j] = u}} :
             r \in DOMAIN rooms}
\* m comes before n in the log
Before(log, m, n) ==
    \E i, j \in DOMAIN log : i < j /\ log[i] = m /\ log[j] = n

\* ------------------------------------------------------------------ claims
\* C1: a SendMessage{R, content} written by the peer of an authenticated
\* session whose user is in R is dispatched by a running thread, and once
\* dispatched the sender has received exactly one MessageBroadcast{R, user,
\* content} (as has every reachable member of R).
C1_SendReachesRoom ==
    \A s \in Sessions : \A r \in RoomNames, c \in Contents :
        LET u == current_user[s]
            mb == MessageBroadcast(r, u, c)
        IN (u # None /\ InRoom(users, u, r) /\ ~peerClosed[s]) =>
             /\ (inbox[s] # <<>> /\ Head(inbox[s]) = SendMessage(r, c))
                    => pc[s] = "reading"
             /\ (last[s].msg = SendMessage(r, c) /\ last[s].room = r)
                    => \A v \in Usernames :
                          (Contains(Members(r), v) /\ Reachable(v)) => Got(v, mb) = 1

\* C2: the handler of every dispatched frame finishes: a session thread is
\* either reading the next frame or, after Disconnect or a read/decode
\* failure, done.
C2_HandlersFinish ==
    \A s \in Sessions :
        /\ pc[s] \in {"unaccepted", "reading", "closed"}
        /\ pc[s] = "closed" => LeftLoop(s)

\* C3: once a session whose user was a member of room A has dispatched
\* JoinRoom(B), the user is in B's member list, is not in A's, and the
\* user's current_room is B.
C3_JoinMovesUser ==
    \A s \in Sessions :
        LET u == last[s].user
            A == last[s].room
            B == last[s].msg.room
        IN (last[s].msg.type = "JoinRoom" /\ u # None /\ A # None /\ A # B) =>
             /\ Contains(Members(B), u)
             /\ ~Contains(Members(A), u)
             /\ CurrentRoomOf(users, u) = B

\* C4: once a session whose user was in room A has dispatched JoinRoom(B),
\* every other reachable member of A has received UserLeft{A, user}, every
\* other reachable member of B has received UserJoined{B, user}, and the
\* UserLeft was issued before the UserJoined.
C4_JoinNotifies ==
    \A s \in Sessions :
        LET u == last[s].user
            A == last[s].room
            B == last[s].msg.room
        IN (last[s].msg.type = "JoinRoom" /\ u # None /\ A # None /\ A # B) =>
             /\ \A v \in Usernames \ {u} :
                  /\ (Contains(Members(A), v) /\ Reachable(v))
                        => Got(v, UserLeft(A, u)) >= 1
                  /\ (Contains(Members(B), v) /\ Reachable(v))
                        => Got(v, UserJoined(B, u)) >= 1
             /\ Contains(issued, UserJoined(B, u))
                  => Before(issued, UserLeft(A, u), UserJoined(B, u))

\* C5: no two sessions are authenticated under one username, a Connect for
\* a name another session holds is not acknowledged with success, and once a
\* session that registered a name is closed the name is free again (unless
\* another session has registered it since).
C5_NameExclusive ==
    /\ \A s, t \in Sessions :
          (s # t /\ Live(s) /\ Live(t) /\ current_user[s] # None)
             => current_user[s] # current_user[t]
    /\ \A s \in Sessions : \A n \in registered[s] :
          pc[s] = "closed" =>
             (n \in DOMAIN users =>
                 \E t \in Sessions \ {s} : n \in registered[t] /\ pc[t] # "closed")

\* C6: when a session has left its loop, its username is gone from the user
\* map, from the member lists and from the connection map, or (cleanup not
\* begun) still in all of them; it is never in some and not in others.
C6_RemovalAllOrNothing ==
    \A s \in Sessions :
        LET u == last[s].user
            inUsers == u \in DOMAIN users
            inConns == u \in DOMAIN connections
        IN (LeftLoop(s) /\ u # None) =>
             \/ ~inUsers /\ ~inConns /\ ~InSomeRoom(u)
             \/ /\ inUsers /\ inConns
                /\ last[s].room # None => Contains(Members(last[s].room), u)

\* C7: once a session whose user was a member of room R has left its loop,
\* every remaining reachable member of R has received UserLeft{R, user},
\* and the leaving user has not.
C7_LeaveNotifies ==
    \A s \in Sessions :
        LET u == last[s].user
            R == last[s].room
        IN (LeftLoop(s) /\ u # None /\ R # None) =>
             /\ \A v \in Usernames \ {u} :
                  (Contains(Members(R), v) /\ Reachable(v))
                     => Got(v, UserLeft(R, u)) >= 1
             /\ ~Contains(outbox[s], UserLeft(R, u))

\* C8: an authenticated session whose connection was closed, or that got
\* Disconnect, is on its way to Closed (its thread runs) or is Closed, and
\* when Closed its username is in none of the three maps (unless another
\* session holds the name by then).
C8_CloseCleansUp ==
    \A s \in Sessions :
        LET u == current_user[s] IN
        (u # None /\ (peerClosed[s] \/ last[s].msg = Disconnect)) =>
            /\ pc[s] \in {"reading", "closed"}
            /\ pc[s] = "closed" =>
                 \/ u \notin DOMAIN users /\ u \notin DOMAIN connections
                    /\ ~InSomeRoom(u)
                 \/ \E t \in Sessions \ {s} :
                       current_user[t] = u /\ pc[t] # "closed"

\* C9: the user map and the connection map have the same keys, and every
\* username that is a key or a member of a room is the username of a
\* session whose thread exists.
C9_RegistryTracksSessions ==
    /\ DOMAIN users = DOMAIN connections
    /\ \A n \in Usernames :
          (n \in DOMAIN users \/ InSomeRoom(n)) =>
              \E s \in Sessions : current_user[s] = n /\ Live(s)

\* C10: a username occurs at most once over all member lists together.
C10_AtMostOneRoom ==
    \A u \in Usernames : Cardinality(Occurrences(u)) <= 1

\* C10 witness: a session dispatched JoinRoom for the room its user was
\* already in.
C10_Witness ==
    \E s \in Sessions :
        /\ last[s].msg.type = "JoinRoom"
        /\ last[s].room # None
        /\ last[s].room = last[s].msg.room

\* C11: every username in a room's member list is a key of the user map.
C11_MembersAreUsers ==
    \A r \in DOMAIN rooms : \A i \in DOMAIN rooms[r] : rooms[r][i] \in DOMAIN users

\* C11 witness: a room has a member while the cleanup of an authenticated
\* session has run to its end.
C11_Witness ==
    /\ \E r \in DOMAIN rooms : rooms[r] # <<>>
    /\ \E s \in Sessions : pc[s] = "closed" /\ last[s].user # None

\* C12: the username of a session never changes once it is authenticated:
\* the names a session has registered are at most its one current username.
C12_UsernameImmutable ==
    \A s \in Sessions : registered[s] \subseteq {current_user[s]}

\* C13: once a session whose peer is there has dispatched ListUsers(room),
\* the peer has received a UserList for that room, without duplicates, and
\* empty when the room was never joined.
C13_ListUsersReplies ==
    \A s \in Sessions :
        LET m == last[s].msg
            r == last[s].reply
        IN (m.type = "ListUsers" /\ ~peerClosed[s]) =>
             /\ r.type = "UserList"
             /\ r.room = m.room
             /\ \A u \in Usernames : Count(r.users, u) <= 1
             /\ m.room \notin DOMAIN rooms => r.users = <<>>

\* C15: once an authenticated session whose peer is there has dispatched a
\* SendMessage for a room its user is not in, the peer has received an Error
\* and the session is reading the next frame.
C15_WrongRoomGetsError ==
    \A s \in Sessions :
        LET m == last[s].msg IN
        (m.type = "SendMessage" /\ last[s].user # None /\ last[s].room # m.room
           /\ ~peerClosed[s]) =>
             /\ last[s].reply.type = "Error"
             /\ pc[s] = "reading"

\* C16: once an unauthenticated session whose peer is there has dispatched
\* JoinRoom, SendMessage, ListRooms or ListUsers, the peer has received an
\* Error (and nothing read out of the registry) and the session is still
\* unauthenticated and reading.
C16_UnauthenticatedGetsError ==
    \A s \in Sessions :
        (/\ last[s].msg.type \in {"JoinRoom", "SendMessage", "ListRooms", "ListUsers"}
         /\ last[s].user = None
         /\ ~peerClosed[s]) =>
             /\ last[s].reply.type = "Error"
             /\ current_user[s] = None
             /\ pc[s] = "reading"

\* C17: once a session whose peer is there has dispatched a Connect for a
\* name that another session had registered, the peer has received
\* ConnectAck{success: false}, the session is bound as it was before and is
\* reading the next frame.
C17_TakenNameRefused ==
    \A s \in Sessions : \A n \in Usernames :
        (/\ last[s].msg = Connect(n)
         /\ n \in DOMAIN users
         /\ n \notin registered[s]
         /\ ~peerClosed[s]) =>
             /\ last[s].reply = ConnectAck(FALSE)
             /\ current_user[s] = last[s].user
             /\ pc[s] = "reading"

\* C18: cleanup_user is called exactly once for an authenticated session
\* whose read loop ended by Disconnect, by a decode failure or by the end of
\* the stream; it is never called twice, and never before the loop ended.
C18_CleanupOnce ==
    \A s \in Sessions :
        /\ cleanups[s] <= 1
        /\ (LeftLoop(s) /\ last[s].user # None) => cleanups[s] = 1
        /\ ~LeftLoop(s) => cleanups[s] = 0

\* C18 witness: one authenticated session ended by Disconnect and another
\* by the end of its stream, each with its cleanup called.
C18_Witness ==
    \E s, t \in Sessions :
        /\ last[s].msg = Disconnect /\ last[s].user # None /\ cleanups[s] = 1
        /\ last[t].msg = EndOfStream /\ last[t].user # None /\ cleanups[t] = 1

\* C14: the step in which a session dispatches a SendMessage for a room that
\* is not the current room of its user (another room, no room, or no user)
\* issues no broadcast, delivers nothing to anyone and leaves the user map,
\* the rooms and the connection map as they were.
C14_NoBroadcastOutsideRoom ==
    [][\A s \in Sessions :
          (/\ pc[s] = "reading"
           /\ inbox[s] # <<>>
           /\ Head(inbox[s]).type = "SendMessage"
           /\ Len(inbox'[s]) < Len(inbox[s])
           /\ CurrentRoomOf(users, current_user[s]) # Head(inbox[s]).room)
          => /\ issued' = issued
             /\ outbox' = outbox
             /\ users' = users /\ rooms' = rooms /\ connections' = connections]_vars

\* C14 witness: an authenticated session has dispatched a SendMessage for a
\* room that is not the room of its user; the room has a member and the
\* session reads on.
C14_Witness ==
    \E s \in Sessions :
        /\ last[s].msg.type = "SendMessage"
        /\ last[s].user # None
        /\ last[s].room # last[s].msg.room
        /\ Members(last[s].msg.room) # <<>>
        /\ pc[s] = "reading"

\* C19: a thread that is writing a frame to a stalled peer holds no registry
\* mutex, and no session thread waits for a mutex: the handlers of the
\* other sessions complete.
C19_StallBlocksOnlyItself ==
    \A s \in Sessions :
        /\ pc[s] = "writing" => \A m \in Mutexes : held[m] # s
        /\ pc[s] # "blocked"

\* C20: once a member of a room has had its SendMessage broadcast, every
\* member of the room whose peer is there has received the MessageBroadcast
\* exactly once, whatever happened to the writes to the members whose peers
\* are gone, and the sender's handler has returned without reporting an error.
C20_BroadcastSurvivesFailures ==
    \A s \in Sessions :
        LET m == last[s].msg
            u == last[s].user
        IN (m.type = "SendMessage" /\ u # None /\ last[s].room = m.room) =>
             /\ \A v \in Usernames :
                   (Contains(Members(m.room), v) /\ Reachable(v))
                      => Got(v, MessageBroadcast(m.room, u, m.content)) = 1
             /\ last[s].reply.type # "Error"
             /\ pc[s] = "reading"

\* C20 witness: a broadcast went through a room in which a member whose peer
\* is gone comes before a member whose peer is there, and the latter has
\* received the message.
C20_Witness ==
    \E s \in Sessions :
        LET m == last[s].msg
            u == last[s].user
        IN /\ m.type = "SendMessage" /\ u # None /\ last[s].room = m.room
           /\ \E i, j \in DOMAIN Members(m.room) :
                 /\ i < j
                 /\ peerClosed[connections[Members(m.room)[i]]]
                 /\ Reachable(Members(m.room)[j])
                 /\ Got(Members(m.room)[j], MessageBroadcast(m.room, u, m.content)) = 1


\* ------------------------------------------------- order of the broadcasts
MaxFifoFrames == 3

\* the frames of the peers of FifoSpec
FifoFrames == {SendMessage(r, c) : r \in RoomNames, c \in Contents}

FifoSend(s, m) == Send(s, m, MaxFifoFrames)

\* the registries and streams of BroadcastInit, with peers that go on sending
\* messages from any session in any order
FifoNext ==
    \/ \E s \in Sessions, m \in FifoFrames : FifoSend(s, m)
    \/ \E s \in Sessions : HandleSendMessage(s)

FifoSpec == BroadcastInit /\ [][FifoNext]_vars

\* a is b with some elements left out
RECURSIVE IsSubseq(_, _)
IsSubseq(a, b) ==
    IF a = <<>> THEN TRUE
    ELSE IF b = <<>> THEN FALSE
    ELSE IF Head(a) = Head(b) THEN IsSubseq(Tail(a), Tail(b))
    ELSE IsSubseq(a, Tail(b))

MaxHandleFrames == 4

\* the frames of the peers of HandleSpec: one room to join, two to send to
HandleFrames ==
    {Connect(u) : u \in Usernames} \cup {JoinRoom("general")}
    \cup {SendMessage(r, c) : r \in RoomNames, c \in Contents}

HandleSend(s, m) == Send(s, m, MaxHandleFrames)

\* peers that connect, join a room, send to it and close, in every order
HandleNext ==
    \/ \E s \in Sessions : Accept(s)
    \/ \E s \in Sessions, m \in HandleFrames : HandleSend(s, m)
    \/ \E s \in Sessions : PeerClose(s)
    \/ \E s \in Sessions : HandleConnect(s)
    \/ \E s \in Sessions : HandleJoinRoom(s)
    \/ \E s \in Sessions : HandleSendMessage(s)
    \/ \E s \in Sessions : StreamClosed(s)

HandleSpec == Init /\ [][HandleNext]_vars

\* C22: in every state in which broadcast_to_room may enumerate a member
\* list, every username of every list has a connection handle; equally, a
\* user whose handle was removed is in no list.  Sessions that connect, join,
\* send and are cleaned up interleave in every order.
C22_MembersHaveHandles ==
    \A r \in DOMAIN rooms : \A i \in DOMAIN rooms[r] :
        rooms[r][i] \in DOMAIN connections

\* broadcast_to_room enumerated a room after cleanup_user removed the handle
\* of another user
C22_Witness ==
    /\ issued # <<>>
    /\ \E s \in Sessions :
          /\ pc[s] = "closed"
          /\ cleanups[s] = 1
          /\ registered[s] # {}
          /\ registered[s] \cap DOMAIN connections = {}


\* ------------------------------------------------------------------ codec
\* frames serialized to one stream in CodecSpec
MaxCodecFrames == 2

\* the values of the fields of the messages of CodecSpec
CodecUsers == {"bob"}
CodecRooms == {"dev"}
Texts == {"", "ok"}
Timestamps == {1762421000}
CodecStrings == Usernames \cup RoomNames \cup Contents \cup Texts
Lists == {<<>>, <<"dev">>, <<"dev", "general">>}
Names == {<<>>, <<"bob">>, <<"bob", "alice">>}

\* String::as_bytes
Utf8 ==
    [s \in CodecStrings |->
        CASE s = "alice" -> <<97, 108, 105, 99, 101>>
          [] s = "bob" -> <<98, 111, 98>>
          [] s = "general" -> <<103, 101, 110, 101, 114, 97, 108>>
          [] s = "dev" -> <<100, 101, 118>>
          [] s = "hi" -> <<104, 105>>
          [] s = "ok" -> <<111, 107>>
          [] OTHER -> <<>>]

\* String::from_utf8: a text outside the table stands as its bytes
StringOf(b) ==
    IF \E s \in CodecStrings : Utf8[s] = b
    THEN CHOOSE s \in CodecStrings : Utf8[s] = b
    ELSE b

\* enum MessageType lines 11-30: the variants in declaration order, which is
\* their bincode index from 0, each with its fields in declaration order
Schema ==
    << [type |-> "Connect", fields |-> << <<"username", "str">> >>],
       [type |-> "JoinRoom", fields |-> << <<"room", "str">> >>],
       [type |-> "SendMessage",
        fields |-> << <<"room", "str">>, <<"content", "str">> >>],
       [type |-> "ListRooms", fields |-> << >>],
       [type |-> "ListUsers", fields |-> << <<"room", "str">> >>],
       [type |-> "Disconnect", fields |-> << >>],
       [type |-> "ConnectAck",
        fields |-> << <<"success", "bool">>, <<"message", "str">> >>],
       [type |-> "JoinRoomAck",
        fields |-> << <<"success", "bool">>, <<"room", "str">>,
                      <<"message", "str">> >>],
       [type |-> "MessageBroadcast",
        fields |-> << <<"room", "str">>, <<"username", "str">>,
                      <<"content", "str">>, <<"timestamp", "u64">> >>],
       [type |-> "RoomList", fields |-> << <<"rooms", "vec">> >>],
       [type |-> "UserList",
        fields |-> << <<"room", "str">>, <<"users", "vec">> >>],
       [type |-> "Error", fields |-> << <<"message", "str">> >>],
       [type |-> "UserJoined",
        fields |-> << <<"room", "str">>, <<"username", "str">> >>],
       [type |-> "UserLeft",
        fields |-> << <<"room", "str">>, <<"username", "str">> >>] >>

\* the messages of the catalogue with every field of the enum: the texts of
\* the acks and the timestamp of a broadcast, which the server model leaves
\* out of its frames, are fields here
CodecTypes ==
    {Connect(u) : u \in CodecUsers} \cup {JoinRoom(r) : r \in CodecRooms}
    \cup {SendMessage(r, c) : r \in CodecRooms, c \in Contents}
    \cup {ListRooms, Disconnect} \cup {ListUsers(r) : r \in CodecRooms}
    \cup {ConnectAck(b) @@ [message |-> t] : b \in BOOLEAN, t \in Texts}
    \cup {JoinRoomAck(b, r) @@ [message |-> "ok"] : b \in BOOLEAN, r \in CodecRooms}
    \cup {MessageBroadcast(r, u, c) @@ [timestamp |-> ts] :
            r \in CodecRooms, u \in CodecUsers, c \in Contents, ts \in Timestamps}
    \cup {RoomList(q) : q \in Lists}
    \cup {UserList(r, q) : r \in CodecRooms, q \in Names}
    \cup {Error(t) : t \in Texts}
    \cup {UserJoined(r, u) : r \in CodecRooms, u \in CodecUsers}
    \cup {UserLeft(r, u) : r \in CodecRooms, u \in CodecUsers}

\* struct ProtocolMessage lines 33-37
ProtocolMessage(mt, ts) == [message_type |-> mt, timestamp |-> ts]

CodecMessages == {ProtocolMessage(mt, ts) : mt \in CodecTypes, ts \in Timestamps}

\* the k low-order bytes of n, most significant first
RECURSIVE BigEndianBytes(_, _)
BigEndianBytes(n, k) ==
    IF k = 0 THEN <<>> ELSE BigEndianBytes(n \div 256, k - 1) \o <<n % 256>>

\* the integers of the serializer as they would be if it wrote them most
\* significant byte first while the deserializer reads them as it does
SwappedBytes(n, k) == BigEndianBytes(n, k)

\* the k low-order bytes of n, least significant first: the fixed-width
\* integers of bincode
RECURSIVE LittleEndianBytes(_, _)
LittleEndianBytes(n, k) ==
    IF k = 0 THEN <<>> ELSE <<n % 256>> \o LittleEndianBytes(n \div 256, k - 1)

\* the prefix as it would be with to_le_bytes in place of to_be_bytes
LenPrefixLittle(n) == LittleEndianBytes(n, 4)

\* `data.len() as u32` followed by to_be_bytes (lines 54-55): the four
\* low-order bytes of the length, whatever the length
LenPrefix(n) == BigEndianBytes(n, 4)

\* a number read from bytes that does not fit the integers of the model
Huge == -1

\* the number whose bytes, least significant first, are b
RECURSIVE LittleEndian(_)
LittleEndian(b) ==
    IF b = <<>> THEN 0
    ELSE IF Len(b) > 4 /\ \E i \in 5..Len(b) : b[i] # 0 THEN Huge
    ELSE IF Len(b) >= 4 /\ b[4] >= 128 THEN Huge
    ELSE Head(b) + 256 * LittleEndian(Tail(b))

Reverse(b) == [i \in 1..Len(b) |-> b[Len(b) + 1 - i]]

\* u32::from_be_bytes (line 68)
BigEndian(b) == LittleEndian(Reverse(b))

RECURSIVE Flatten(_)
Flatten(q) == IF q = <<>> THEN <<>> ELSE Head(q) \o Flatten(Tail(q))

\* bincode: a String is its length as u64 and its bytes
EncodeString(s) == LittleEndianBytes(Len(Utf8[s]), 8) \o Utf8[s]

\* bincode, one field of kind k with value v
EncodeField(k, v) ==
    CASE k = "str" -> EncodeString(v)
      [] k = "bool" -> <<IF v THEN 1 ELSE 0>>
      [] k = "u64" -> LittleEndianBytes(v, 8)
      [] k = "vec" -> LittleEndianBytes(Len(v), 8)
                     \o Flatten([i \in 1..Len(v) |-> EncodeString(v[i])])

\* the bincode index of the variant of mt
Tag(mt) == (CHOOSE i \in DOMAIN Schema : Schema[i].type = mt.type) - 1

\* bincode::serialize of a MessageType: the index as u32, then the fields
EncodeType(mt) ==
    LET f == Schema[Tag(mt) + 1].fields
    IN LittleEndianBytes(Tag(mt), 4)
       \o Flatten([i \in 1..Len(f) |-> EncodeField(f[i][2], mt[f[i][1]])])

\* bincode::serialize(self), line 53
Bincode(pm) == EncodeType(pm.message_type) \o LittleEndianBytes(pm.timestamp, 8)

\* ProtocolMessage::serialize lines 52-59
Serialize(pm) == LenPrefix(Len(Bincode(pm))) \o Bincode(pm)

\* a failed read of the deserializer
Fail == [ok |-> FALSE, val |-> None, rest |-> <<>>]
Read(v, rest) == [ok |-> TRUE, val |-> v, rest |-> rest]

\* bincode: an integer of n bytes
ReadInt(b, n) ==
    IF Len(b) < n THEN Fail
    ELSE Read(LittleEndian(SubSeq(b, 1, n)), SubSeq(b, n + 1, Len(b)))

ReadString(b) ==
    LET n == ReadInt(b, 8) IN
    IF ~n.ok THEN Fail
    ELSE IF n.val = Huge \/ n.val > Len(n.rest) THEN Fail
    ELSE Read(StringOf(SubSeq(n.rest, 1, n.val)),
              SubSeq(n.rest, n.val + 1, Len(n.rest)))

RECURSIVE ReadStrings(_, _)
ReadStrings(b, n) ==
    IF n = 0 THEN Read(<<>>, b)
    ELSE LET s == ReadString(b) IN
         IF ~s.ok THEN Fail
         ELSE LET r == ReadStrings(s.rest, n - 1) IN
              IF ~r.ok THEN Fail ELSE Read(<<s.val>> \o r.val, r.rest)

\* bincode, one field of kind k
ReadField(b, k) ==
    CASE k = "str" -> ReadString(b)
      [] k = "bool" -> IF Len(b) < 1 \/ b[1] \notin {0, 1} THEN Fail
                       ELSE Read(b[1] = 1, Tail(b))
      [] k = "u64" -> ReadInt(b, 8)
      [] k = "vec" -> LET n == ReadInt(b, 8) IN
                      IF ~n.ok THEN Fail
                      ELSE IF n.val = Huge \/ n.val > Len(n.rest) THEN Fail
                      ELSE ReadStrings(n.rest, n.val)

\* the fields f of a variant, read in order into the record acc
RECURSIVE ReadFields(_, _, _)
ReadFields(b, f, acc) ==
    IF f = <<>> THEN Read(acc, b)
    ELSE LET r == ReadField(b, Head(f)[2]) IN
         IF ~r.ok THEN Fail
         ELSE ReadFields(r.rest, Tail(f), acc @@ (Head(f)[1] :> r.val))

\* bincode::deserialize (line 74): the variant index, the fields of that
\* variant, the timestamp; an unknown index or a short buffer is an error
BincodeDeserialize(buffer) ==
    LET t == ReadInt(buffer, 4) IN
    IF ~t.ok THEN Fail
    ELSE IF t.val = Huge \/ t.val + 1 \notin DOMAIN Schema THEN Fail
    ELSE LET mt == ReadFields(t.rest, Schema[t.val + 1].fields,
                              [type |-> Schema[t.val + 1].type])
         IN IF ~mt.ok THEN Fail
            ELSE LET ts == ReadInt(mt.rest, 8) IN
                 IF ~ts.ok THEN Fail
                 ELSE Read(ProtocolMessage(mt.val, ts.val), ts.rest)

\* the state of the server, which the codec does not touch
ServerVars ==
    <<users, rooms, connections, current_user, pc, held, poisoned, inbox,
      peerClosed, outbox, sent, last, registered, issued, cleanups, stalled,
      client, thread>>

\* the messages written behind the first one: the first ranges over the
\* whole catalogue
Followers ==
    {ProtocolMessage(mt, ts) :
        mt \in {ListRooms} \cup {Connect(u) : u \in CodecUsers}, ts \in Timestamps}

\* serialize + write_all of one message (lines 397-399, 492-494)
SerializeToStream(pm) ==
    /\ Len(encoded) < MaxCodecFrames
    /\ encoded = <<>> \/ pm \in Followers
    /\ wire' = wire \o Serialize(pm)
    /\ encoded' = Append(encoded, pm)
    /\ UNCHANGED <<ServerVars, decoded>>

\* deserialize_from_stream lines 62-76 on a stream that stays open: the call
\* returns once the four bytes of the length and the payload they announce
\* are there.  Its BufReader reads what the stream has at hand, up to its
\* capacity, into a buffer of its own: the c bytes it took are gone from the
\* stream when the call returns, the frame and whatever followed it
DeserializeFromStream ==
    /\ Len(wire) >= 4
    /\ LET len == BigEndian(SubSeq(wire, 1, 4)) IN
       /\ len # Huge
       /\ Len(wire) >= 4 + len
       /\ \E c \in (4 + len)..Len(wire) :
             wire' = SubSeq(wire, c + 1, Len(wire))
       /\ LET r == BincodeDeserialize(SubSeq(wire, 5, 4 + len)) IN
          decoded' = Append(decoded, IF r.ok THEN r.val ELSE Malformed)
    /\ UNCHANGED <<ServerVars, encoded>>

CodecNext ==
    \/ \E pm \in CodecMessages : SerializeToStream(pm)
    \/ DeserializeFromStream

CodecSpec == Init /\ [][CodecNext]_vars

C24_DecodeFailureCloses ==
    \A s \in Sessions :
        last[s].msg.type \in {"Malformed", "EndOfStream"} =>
            /\ pc[s] = "closed"
            /\ \A m \in Mutexes : held[m] # s


\* C25: in the step in which an authenticated session dispatches JoinRoom(B)
\* for its user, the stream of the joiner gets no UserJoined{B, user}, the
\* joiner (if its peer is there) gets JoinRoomAck{success: true}, and every
\* other member of B whose peer is there gets UserJoined{B, user}, once.
C25_JoinedGoesToOthers ==
    [][\A s \in Sessions :
          (/\ pc[s] = "reading"
           /\ inbox[s] # <<>>
           /\ Head(inbox[s]).type = "JoinRoom"
           /\ Len(inbox'[s]) < Len(inbox[s])
           /\ current_user[s] # None)
          => LET u == current_user[s]
                 B == Head(inbox[s]).room
                 e == UserJoined(B, u)
             IN /\ Count(outbox'[s], e) = Count(outbox[s], e)
                /\ ~peerClosed[s] => last'[s].reply = JoinRoomAck(TRUE, B)
                /\ \A v \in Usernames \ {u} :
                      (Contains(UsersOf(rooms, B), v) /\ Reachable(v)) =>
                          Count(outbox'[connections[v]], e)
                              = Count(outbox[connections[v]], e) + 1]_vars


\* C26: no step removes a room entry, and in the step in which a session
\* whose peer is there dispatches ListRooms, the peer gets a RoomList that
\* names every room that was ever joined, with or without members.
C26_RoomsPersist ==
    [][/\ DOMAIN rooms \subseteq DOMAIN rooms'
       /\ \A s \in Sessions :
             (/\ pc[s] = "reading"
              /\ inbox[s] # <<>>
              /\ Head(inbox[s]).type = "ListRooms"
              /\ Len(inbox'[s]) < Len(inbox[s])
              /\ ~peerClosed[s])
             => /\ last'[s].reply.type = "RoomList"
                /\ {last'[s].reply.rooms[i] : i \in DOMAIN last'[s].reply.rooms}
                      = DOMAIN rooms]_vars


\* ----------------------------------------------------------------- client
\* frames all clients together put on the wire in ClientSpec
MaxClientFrames == 4

\* what the clients do not touch
ClientLeaves ==
    <<users, rooms, connections, current_user, pc, held, poisoned, outbox,
      last, registered, issued, cleanups, stalled, wire, encoded, decoded,
      thread>>

\* ChatClient::send_message lines 491-496: the frame is on its way to the
\* session thread
ClientWrite(s, m) ==
    /\ sent < MaxClientFrames
    /\ inbox' = [inbox EXCEPT ![s] = Append(@, m)]
    /\ sent' = sent + 1

\* deserialize_from_stream on the client's end of the connection: the head
\* frame is decoded; the BufReader made for this call may have read frames
\* behind it, which are dropped with it
ClientReads(s) ==
    {SubSeq(client[s].rx, 2 + k, Len(client[s].rx)) :
        k \in 0..(Len(client[s].rx) - 1)}

\* the server's end of the connection of s is closed: the session thread
\* has ended and the connection map holds no clone of the stream
ServerGone(s) ==
    /\ pc[s] \in {"closed", "panicked"}
    /\ \A u \in DOMAIN connections : connections[u] # s

\* run_client lines 611-612: ChatClient::new and connect
ClientConnect(s) ==
    /\ client[s].pc = "absent"
    /\ pc[s] = "unaccepted"
    /\ client' = [client EXCEPT ![s].pc = "connected", ![s].stream = TRUE]
    /\ UNCHANGED <<ClientLeaves, inbox, sent, peerClosed>>

\* run_client line 621, login lines 451-452: Connect is sent
Login(s, u) ==
    /\ client[s].pc = "connected"
    /\ ClientWrite(s, Connect(u))
    /\ client' = [client EXCEPT ![s].pc = "login", ![s].request = Connect(u)]
    /\ UNCHANGED <<ClientLeaves, peerClosed>>

\* login with the flag of the ack ignored
LoginResultAlways(frame) == frame.type = "ConnectAck"

\* login lines 455-464: the value returned for the frame that was read
LoginResult(frame) == frame.type = "ConnectAck" /\ frame.success

\* login lines 454-464 and run_client lines 621-627: the frame is read; on
\* success the username is set and the listener thread is started, otherwise
\* run_client returns and the connection is closed
LoginRead(s) ==
    /\ client[s].pc = "login"
    /\ client[s].rx # <<>>
    /\ \E rest \in ClientReads(s) :
         LET ok == LoginResult(Head(client[s].rx)) IN
         /\ client' = [client EXCEPT
                         ![s].rx = rest,
                         ![s].result = IF ok THEN "Ok(true)" ELSE "Ok(false)",
                         ![s].username = IF ok THEN client[s].request.username
                                         ELSE @,
                         ![s].listening = ok,
                         ![s].pc = IF ok THEN "commands" ELSE "ended"]
         /\ peerClosed' = [peerClosed EXCEPT ![s] = ~ok]
    /\ UNCHANGED <<ClientLeaves, inbox, sent>>

\* run_client lines 648-650, join_room lines 472-473: JoinRoom is sent
JoinCmd(s, r) ==
    /\ client[s].pc = "commands"
    /\ ClientWrite(s, JoinRoom(r))
    /\ client' = [client EXCEPT ![s].pc = "join", ![s].request = JoinRoom(r),
                                ![s].result = None]
    /\ UNCHANGED <<ClientLeaves, peerClosed>>

\* join_room lines 476-485: the value returned for the frame that was read
JoinResult(frame) == frame.type = "JoinRoomAck" /\ frame.success

\* join_room lines 475-485: the main thread reads a frame; on success
\* current_room becomes the room that was asked for
JoinRead(s) ==
    /\ client[s].pc = "join"
    /\ client[s].rx # <<>>
    /\ \E rest \in ClientReads(s) :
         LET ok == JoinResult(Head(client[s].rx)) IN
         client' = [client EXCEPT
                      ![s].rx = rest,
                      ![s].result = IF ok THEN "Ok(true)" ELSE "Ok(false)",
                      ![s].current_room = IF ok THEN client[s].request.room
                                          ELSE @,
                      ![s].pc = "commands"]
    /\ UNCHANGED <<ClientLeaves, inbox, sent, peerClosed>>

\* run_client lines 655-656, list_rooms lines 513-514: ListRooms is sent
RoomsCmd(s) ==
    /\ client[s].pc = "commands"
    /\ ClientWrite(s, ListRooms)
    /\ client' = [client EXCEPT ![s].pc = "rooms", ![s].request = ListRooms,
                                ![s].result = None]
    /\ UNCHANGED <<ClientLeaves, peerClosed>>

\* list_rooms lines 516-526: the main thread reads a frame and prints it
RoomsRead(s) ==
    /\ client[s].pc = "rooms"
    /\ client[s].rx # <<>>
    /\ \E rest \in ClientReads(s) :
         client' = [client EXCEPT ![s].rx = rest, ![s].pc = "commands"]
    /\ UNCHANGED <<ClientLeaves, inbox, sent, peerClosed>>

\* run_client lines 665-669, send_chat_message lines 498-509: a line of text
\* is sent to the room the client believes it is in
ChatCmd(s, c) ==
    /\ client[s].pc = "commands"
    /\ client[s].current_room # None
    /\ ClientWrite(s, SendMessage(client[s].current_room, c))
    /\ client' = [client EXCEPT
                    ![s].request = SendMessage(client[s].current_room, c),
                    ![s].result = None]
    /\ UNCHANGED <<ClientLeaves, peerClosed>>

\* run_client lines 658-660 and 673, disconnect lines 569-579; the process
\* ends and with it the listener thread and every handle of the socket
QuitCmd(s) ==
    /\ client[s].pc = "commands"
    /\ ClientWrite(s, Disconnect)
    /\ client' = [client EXCEPT ![s].pc = "ended", ![s].request = Disconnect,
                                ![s].result = None, ![s].stream = FALSE,
                                ![s].username = None,
                                ![s].current_room = None,
                                ![s].listening = FALSE]
    /\ peerClosed' = [peerClosed EXCEPT ![s] = TRUE]
    /\ UNCHANGED ClientLeaves

\* start_message_listener lines 538-556: the listener thread reads a frame
\* from its clone of the stream and prints or drops it
ListenerRead(s) ==
    /\ client[s].listening
    /\ client[s].rx # <<>>
    /\ \E rest \in ClientReads(s) :
         client' = [client EXCEPT ![s].rx = rest]
    /\ UNCHANGED <<ClientLeaves, inbox, sent, peerClosed>>

\* deserialize_from_stream fails in the main thread, the server's end being
\* closed: login hands the error to run_client, which returns (line 621);
\* the results of join_room and list_rooms are dropped (lines 650, 656)
ReadFails(s) ==
    /\ client[s].pc \in {"login", "join", "rooms"}
    /\ client[s].rx = <<>>
    /\ ServerGone(s)
    /\ client' = [client EXCEPT
                    ![s].result = "Err",
                    ![s].listening = IF client[s].pc = "login" THEN FALSE ELSE @,
                    ![s].pc = IF client[s].pc = "login" THEN "ended"
                              ELSE "commands"]
    /\ peerClosed' = [peerClosed EXCEPT ![s] = (client[s].pc = "login")]
    /\ UNCHANGED <<ClientLeaves, inbox, sent>>

\* the server with a ChatClient, run by run_client, at the other end of each
\* connection
ClientNext ==
    \/ \E s \in Sessions : ClientConnect(s)
    \/ \E s \in Sessions : Accept(s)
    \/ \E s \in Sessions, u \in Usernames : Login(s, u)
    \/ \E s \in Sessions : LoginRead(s)
    \/ \E s \in Sessions, r \in RoomNames : JoinCmd(s, r)
    \/ \E s \in Sessions : JoinRead(s)
    \/ \E s \in Sessions : RoomsCmd(s)
    \/ \E s \in Sessions : RoomsRead(s)
    \/ \E s \in Sessions, c \in Contents : ChatCmd(s, c)
    \/ \E s \in Sessions : QuitCmd(s)
    \/ \E s \in Sessions : ListenerRead(s)
    \/ \E s \in Sessions : ReadFails(s)
    \/ \E s \in Sessions : HandleConnect(s)
    \/ \E s \in Sessions : HandleJoinRoom(s)
    \/ \E s \in Sessions : HandleListRooms(s)
    \/ \E s \in Sessions : HandleDisconnect(s)
    \/ \E s \in Sessions : StreamClosed(s)

ClientSpec == Init /\ [][ClientNext]_vars


\* login has returned to run_client and nothing was asked since
LoginReturned(s) ==
    /\ client[s].request.type = "Connect"
    /\ client[s].pc \in {"commands", "ended"}
    /\ client[s].result # "Err"

\* C27: while login waits for the ack the username is unset; once it has
\* returned, it returned the success flag of the ConnectAck the server sent
\* for that Connect, and username is the name asked for exactly when the
\* flag is true.
C27_LoginReturnsAck ==
    \A s \in Sessions :
        /\ client[s].pc = "login" => client[s].username = None
        /\ (LoginReturned(s) /\ last[s].msg = client[s].request) =>
              /\ last[s].reply.type = "ConnectAck"
              /\ client[s].result =
                    (IF last[s].reply.success THEN "Ok(true)" ELSE "Ok(false)")
              /\ client[s].username =
                    (IF last[s].reply.success THEN client[s].request.username
                     ELSE None)

\* one client was refused a name that another client had been granted
C27_Witness ==
    \E s, t \in Sessions :
        /\ LoginReturned(s) /\ client[s].result = "Ok(false)"
        /\ last[s].msg = client[s].request
        /\ LoginReturned(t) /\ client[t].result = "Ok(true)"
        /\ last[t].msg = client[t].request
        /\ client[t].username = client[s].request.username


\* C29: no client has two readers of its connection at once: while the main
\* thread is in the read of login, join_room or list_rooms, the listener
\* thread has not been started.
C29_OneReader ==
    \A s \in Sessions :
        client[s].pc \in {"login", "join", "rooms"} => ~client[s].listening

\* C28: once the server has dispatched the JoinRoom of a client and written
\* its JoinRoomAck, join_room is still waiting only while the ack is on the
\* wire; once it has returned, it returned the flag of the ack and the
\* client's current_room is the room the server records for its user.
C28_JoinMirrorsServer ==
    \A s \in Sessions :
        (/\ client[s].request.type = "JoinRoom"
         /\ inbox[s] = <<>>
         /\ last[s].msg = client[s].request
         /\ last[s].reply.type = "JoinRoomAck") =>
            /\ client[s].pc = "join" => Contains(client[s].rx, last[s].reply)
            /\ client[s].pc = "commands" =>
                  /\ client[s].result =
                        (IF last[s].reply.success THEN "Ok(true)" ELSE "Ok(false)")
                  /\ client[s].current_room =
                        CurrentRoomOf(users, client[s].username)


\* C30: each call of deserialize_from_stream takes one frame, its four
\* length bytes and its payload, off the stream and nothing more: the
\* messages decoded so far are the first messages written, in order, and the
\* stream still holds, byte for byte, the frames of the messages not decoded
\* yet.
C30_OneFramePerDecode ==
    /\ Len(decoded) <= Len(encoded)
    /\ \A i \in DOMAIN decoded : decoded[i] = encoded[i]
    /\ wire = Flatten([i \in 1..(Len(encoded) - Len(decoded)) |->
                          Serialize(encoded[Len(decoded) + i])])

\* ------------------------------------------- the writes, one at a time
\* The handlers above are single steps.  Here the two handlers that write
\* without the users mutex being free for everyone else are followed write
\* by write: the Error reply of process_message, which is written with no
\* mutex held, and the loop of broadcast_to_room under handle_send_message

MaxWriteFrames == 6

\* each peer connects under its own name; one room
WriteFrames(s) ==
    {Connect(Owner[s]), JoinRoom("general"), SendMessage("general", "hi"),
     ConnectAck(TRUE)}

WriteSend(s, m) == Send(s, m, MaxWriteFrames)

\* no thread is inside broadcast_to_room: a handler that needs a mutex waits
\* until the broadcast has returned
Free == \A t \in Sessions : thread[t].got = <<>>

ConnectWhenFree(s) == Free /\ HandleConnect(s)

JoinRoomWhenFree(s) == Free /\ HandleJoinRoom(s)

\* handle_send_message gets to the loop of broadcast_to_room: the sender is
\* connected and in the room, and the three mutexes can be taken
Broadcasts(s) ==
    /\ pc[s] = "reading"
    /\ inbox[s] # <<>>
    /\ Head(inbox[s]).type = "SendMessage"
    /\ current_user[s] # None
    /\ TryLock("users") = "ok"
    /\ InRoom(users, current_user[s], Head(inbox[s]).room)
    /\ BroadcastLock({"users"}) = "ok"
    /\ Head(inbox[s]).room \in DOMAIN rooms

\* handle_send_message in every other case, as one step
SendMessageElse(s) == Free /\ ~Broadcasts(s) /\ HandleSendMessage(s)

\* broadcast_to_room lines 380-386: the streams the loop writes to, in the
\* order of the member list
RECURSIVE Recipients(_, _, _)
Recipients(conns, members, exclude) ==
    IF members = <<>> THEN <<>>
    ELSE LET u == Head(members) IN
         (IF u # exclude /\ u \in DOMAIN conns THEN <<conns[u]>> ELSE <<>>)
         \o Recipients(conns, Tail(members), exclude)

\* handle_send_message line 320 and broadcast_to_room lines 374-378: the
\* three guards are taken and the message is made
BroadcastBegin(s) ==
    /\ Broadcasts(s)
    /\ Reads(s, {"SendMessage"})
    /\ LET m == Head(inbox[s]) IN
       /\ issued' = Issue(issued, rooms, m.room,
                          MessageBroadcast(m.room, current_user[s], m.content))
       /\ thread' = [thread EXCEPT ![s] =
                       [to |-> None,
                        rest |-> Recipients(connections, rooms[m.room], None),
                        wants |-> <<>>,
                        got |-> <<"users", "rooms", "connections">>]]
       /\ Dispatched(s, m, NoReply)
    /\ pc' = [pc EXCEPT ![s] = "writing"]
    /\ held' = [m \in Mutexes |-> s]
    /\ UNCHANGED <<users, rooms, connections, current_user, poisoned,
                   peerClosed, outbox, sent, registered, cleanups, stalled,
                   client, wire, encoded, decoded>>

\* the message a thread inside broadcast_to_room is sending
Broadcast(s) ==
    MessageBroadcast(last[s].msg.room, last[s].user, last[s].msg.content)

\* the write a thread was in is over: the frame reached the peer, if there
\* is one
Flushed(s) ==
    IF thread[s].to = None THEN outbox
    ELSE Deliver(outbox, thread[s].to, Broadcast(s))

\* broadcast_to_room lines 387-389: the thread enters send_message for the
\* next member
BroadcastWrite(s) ==
    /\ thread[s].got # <<>>
    /\ thread[s].rest # <<>>
    /\ outbox' = Flushed(s)
    /\ thread' = [thread EXCEPT ![s].to = Head(thread[s].rest),
                                ![s].rest = Tail(thread[s].rest)]
    /\ UNCHANGED <<users, rooms, connections, current_user, pc, held, poisoned,
                   inbox, peerClosed, sent, last, registered, issued, cleanups,
                   stalled, client, wire, encoded, decoded>>

\* broadcast_to_room line 393 and handle_send_message line 341: the loop is
\* over, the guards are dropped and the thread reads its next frame
BroadcastEnd(s) ==
    /\ thread[s].got # <<>>
    /\ thread[s].rest = <<>>
    /\ outbox' = Flushed(s)
    /\ thread' = [thread EXCEPT ![s] = Idle]
    /\ pc' = [pc EXCEPT ![s] = "reading"]
    /\ held' = [m \in Mutexes |-> None]
    /\ UNCHANGED <<users, rooms, connections, current_user, poisoned, inbox,
                   peerClosed, sent, last, registered, issued, cleanups,
                   stalled, client, wire, encoded, decoded>>

\* process_message lines 210-216: a frame of a type the server does not
\* serve; the thread enters send_message on its own stream, holding no
\* mutex
ReplyBegin(s) ==
    /\ Reads(s, {"ConnectAck"})
    /\ Dispatched(s, Head(inbox[s]), NoReply)
    /\ pc' = [pc EXCEPT ![s] = "writing"]
    /\ thread' = [thread EXCEPT ![s].to = s]
    /\ UNCHANGED <<users, rooms, connections, current_user, held, poisoned,
                   peerClosed, outbox, sent, registered, issued, cleanups,
                   stalled, client, wire, encoded, decoded>>

\* send_message lines 398-400 return and process_message returns Ok(true)
ReplyEnd(s) ==
    /\ pc[s] = "writing"
    /\ thread[s].got = <<>>
    /\ thread[s].to = s
    /\ last' = [last EXCEPT ![s].reply = Reply(s, Error("Message non supporte"))]
    /\ pc' = [pc EXCEPT ![s] = "reading"]
    /\ thread' = [thread EXCEPT ![s] = Idle]
    /\ UNCHANGED <<users, rooms, connections, current_user, held, poisoned,
                   inbox, peerClosed, outbox, sent, registered, issued,
                   cleanups, stalled, client, wire, encoded, decoded>>

WriteNext ==
    \/ \E s \in Sessions : Accept(s)
    \/ \E s \in Sessions : \E m \in WriteFrames(s) : WriteSend(s, m)
    \/ \E s \in Sessions : PeerClose(s)
    \/ \E s \in Sessions : ConnectWhenFree(s)
    \/ \E s \in Sessions : JoinRoomWhenFree(s)
    \/ \E s \in Sessions : SendMessageElse(s)
    \/ \E s \in Sessions : BroadcastBegin(s)
    \/ \E s \in Sessions : BroadcastWrite(s)
    \/ \E s \in Sessions : BroadcastEnd(s)
    \/ \E s \in Sessions : ReplyBegin(s)
    \/ \E s \in Sessions : ReplyEnd(s)

WriteSpec == Init /\ [][WriteNext]_vars

\* C31: no two server threads are ever inside a write to the same
\* connection: a session's direct replies and the broadcasts of the other
\* sessions to its user are serialized
C31_WritesSerialized ==
    \A s, t \in Sessions :
        s # t /\ thread[s].to # None => thread[s].to # thread[t].to

\* C32: every frame broadcast_to_room writes for room R goes to the
\* connection of a user who is in the member list of R, and whose record
\* names R, at that moment; a user of another room or of no room gets none.
C32_OnlyMembersReceive ==
    [][\A t \in Sessions :
          \A i \in (Len(outbox[t]) + 1)..Len(outbox'[t]) :
              \E u \in DOMAIN connections :
                  /\ connections[u] = t
                  /\ Contains(UsersOf(rooms, outbox'[t][i].room), u)
                  /\ CurrentRoomOf(users, u) = outbox'[t][i].room]_vars

\* a member got a message of its room while a connected user who is not in
\* that room, and whose peer is there, got nothing
C32_Witness ==
    \E u, v \in DOMAIN connections :
        /\ u # v
        /\ outbox[connections[u]] # <<>>
        /\ CurrentRoomOf(users, u) = outbox[connections[u]][1].room
        /\ CurrentRoomOf(users, v) # outbox[connections[u]][1].room
        /\ ~peerClosed[connections[v]]
        /\ outbox[connections[v]] = <<>>

\* ------------------------------------------------------------ the lists
MaxListFrames == 4

\* each peer connects under its own name; one room is joined, two are asked
\* for
ListFrames(s) ==
    {Connect(Owner[s]), JoinRoom("general"), ListRooms}
    \cup {ListUsers(r) : r \in RoomNames}

ListSend(s, m) == Send(s, m, MaxListFrames)

ListNext ==
    \/ \E s \in Sessions : Accept(s)
    \/ \E s \in Sessions : \E m \in ListFrames(s) : ListSend(s, m)
    \/ \E s \in Sessions : PeerClose(s)
    \/ \E s \in Sessions : HandleConnect(s)
    \/ \E s \in Sessions : HandleJoinRoom(s)
    \/ \E s \in Sessions : HandleListRooms(s)
    \/ \E s \in Sessions : HandleListUsers(s)

ListSpec == Init /\ [][ListNext]_vars

\* C33: a step in which a session dispatches ListRooms or ListUsers leaves
\* the user map, the room map with every member list, and the connection
\* map as they were; ListUsers for a room that does not exist does not
\* create it.
C33_ListsChangeNothing ==
    [][\A s \in Sessions :
          (/\ pc[s] = "reading"
           /\ inbox[s] # <<>>
           /\ Head(inbox[s]).type \in {"ListRooms", "ListUsers"}
           /\ Len(inbox'[s]) < Len(inbox[s]))
          => /\ users' = users
             /\ rooms' = rooms
             /\ DOMAIN rooms' = DOMAIN rooms
             /\ connections' = connections]_vars

\* a connected user who was in a room asked for the users of a room that
\* does not exist, and that room still does not exist
C33_Witness ==
    \E s \in Sessions :
        /\ last[s].msg.type = "ListUsers"
        /\ last[s].user # None
        /\ last[s].room # None
        /\ pc[s] = "reading"
        /\ last[s].msg.room \notin DOMAIN rooms

\* ---------------------------------------------------------- cleanup_user
\* cleanup_user as a function of the registry and of its argument: every
\* registry of connected users, each in at most one room, and two threads
\* that have left their loop to call cleanup_user, each for any username,
\* registered or not, the same or not
CleanupInit ==
    \E D \in SUBSET Usernames, name \in [Sessions -> Usernames] :
      \E roomOf \in [D -> RoomNames \cup {None}], q \in Orders(D) :
        /\ users = [u \in D |-> User(u, roomOf[u])]
        /\ rooms = [r \in {roomOf[u] : u \in D} \ {None} |-> Joined(q, roomOf, r)]
        /\ connections = [u \in D |-> CHOOSE s \in Sessions : Owner[s] = u]
        /\ current_user = name
        /\ pc = [s \in Sessions |-> "reading"]
        /\ held = [m \in Mutexes |-> None]
        /\ poisoned = {}
        /\ inbox = [s \in Sessions |-> <<>>]
        /\ peerClosed = [s \in Sessions |-> TRUE]
        /\ outbox = [s \in Sessions |-> <<>>]
        /\ sent = 0
        /\ last = [s \in Sessions |->
                     [msg |-> NoFrame, user |-> None, room |-> None, reply |-> NoReply]]
        /\ registered = [s \in Sessions |-> IF name[s] \in D THEN {name[s]} ELSE {}]
        /\ issued = <<>>
        /\ cleanups = [s \in Sessions |-> 0]
        /\ stalled = {}
        /\ client = [s \in Sessions |-> NoClient]
        /\ wire = <<>>
        /\ encoded = <<>>
        /\ decoded = <<>>
        /\ thread = [s \in Sessions |-> Idle]

CleanupNext == \E s \in Sessions : StreamClosed(s)

CleanupSpec == CleanupInit /\ [][CleanupNext]_vars

\* C34: a call of cleanup_user for a username that is not in the user map
\* changes none of the three maps, issues and writes no UserLeft, and
\* returns when the three mutexes can be taken; so the second of two calls
\* for one username changes nothing.
C34_CleanupAbsentIsNoOp ==
    [][\A s \in Sessions :
          (/\ pc[s] = "reading"
           /\ pc'[s] # "reading"
           /\ current_user[s] \notin DOMAIN users)
          => /\ cleanups'[s] = cleanups[s] + 1
             /\ users' = users
             /\ rooms' = rooms
             /\ connections' = connections
             /\ issued' = issued
             /\ outbox' = outbox
             /\ (CleanupLock[1] = "ok" => pc'[s] = "closed")]_vars

\* cleanup_user ran twice for a username that was registered, and returned
\* both times, while another user is still in a room
C34_Witness ==
    \E s, t \in Sessions :
        /\ s # t
        /\ current_user[s] = current_user[t]
        /\ registered[s] # {}
        /\ cleanups[s] = 1 /\ cleanups[t] = 1
        /\ pc[s] = "closed" /\ pc[t] = "closed"
        /\ \E r \in DOMAIN rooms : rooms[r] # <<>>

\* ------------------------------------------------------ the length prefix
\* payload lengths around the byte boundaries of a 4-byte integer
PayloadLengths ==
    {0, 1, 255, 256, 65535, 65536, 16777215, 16777216, 2147483647}

\* the frames written and not yet read from, as the stream holds them
Unread == decoded = <<>> /\ encoded # <<>>

\* C35: a frame is four bytes that give the byte length of the payload,
\* most significant byte first, followed by the payload; the four bytes
\* give the length itself for every length that fits them.
C35_LengthPrefix ==
    /\ Unread =>
          LET data == Bincode(encoded[1]) IN
          /\ Len(wire) >= 4 + Len(data)
          /\ \A i \in 1..4 : wire[i] \in 0..255
          /\ wire[1] * 16777216 + wire[2] * 65536 + wire[3] * 256 + wire[4]
                = Len(data)
          /\ SubSeq(wire, 5, 4 + Len(data)) = data
          /\ Len(Serialize(encoded[1])) = 4 + Len(data)
    /\ \A n \in PayloadLengths :
          LenPrefix(n) = << n \div 16777216, (n \div 65536) % 256,
                            (n \div 256) % 256, n % 256 >>

\* one frame with a payload of more than 40 bytes is on the stream, alone
C35_Witness ==
    /\ Unread
    /\ Len(encoded) = 1
    /\ Len(Bincode(encoded[1])) > 40
    /\ Len(wire) = 4 + Len(Bincode(encoded[1]))
    /\ wire[4] = Len(Bincode(encoded[1]))

\* ------------------------------------------------------------ the mutexes
\* C36: no thread locks a mutex it already holds.  A thread that does so
\* either waits for itself for ever or, no mutex being poisoned before,
\* panics in lock(): neither happens in any step.
C36_NoRelock ==
    [][\A s \in Sessions :
          /\ pc[s] # "deadlocked" => pc'[s] # "deadlocked"
          /\ (pc[s] = "reading" /\ poisoned = {}) => pc'[s] # "panicked"]_vars

\* The handlers as the sequences of Mutex::lock() calls they make, one lock
\* at a time: a thread that finds a mutex held by another thread waits for
\* it, and every guard lives until the handler returns.

\* broadcast_to_room lines 374-375
BroadcastPlan == <<"rooms", "connections">>

\* handle_connect lines 228 and 245: the name is taken, or it is registered
ConnectPlan(taken) ==
    IF taken THEN <<"users">> ELSE <<"users", "connections">>

\* handle_join_room lines 270-271, then broadcast_to_room at line 279 when
\* a room is left and at line 304 when the ack was written
JoinPlan(left, acked) ==
    <<"users", "rooms">> \o (IF left THEN BroadcastPlan ELSE <<>>)
                         \o (IF acked THEN BroadcastPlan ELSE <<>>)

\* handle_send_message line 320, then broadcast_to_room at line 335 when
\* the sender is in the room
SendPlan(inRoom) == <<"users">> \o (IF inRoom THEN BroadcastPlan ELSE <<>>)

\* handle_list_rooms line 345, handle_list_users line 357
ListPlan == <<"rooms">>

\* cleanup_user as it would be if it took its three mutexes in the opposite
\* order
CleanupPlanReversed(inRoom) ==
    <<"connections", "rooms", "users">>
        \o (IF inRoom THEN BroadcastPlan ELSE <<>>)

\* cleanup_user lines 404-406, then broadcast_to_room at line 414 when the
\* user is in a room
CleanupPlan(inRoom) ==
    <<"users", "rooms", "connections">>
        \o (IF inRoom THEN BroadcastPlan ELSE <<>>)

Plans ==
    {ConnectPlan(b) : b \in BOOLEAN}
    \cup {JoinPlan(l, a) : l \in BOOLEAN, a \in BOOLEAN}
    \cup {SendPlan(b) : b \in BOOLEAN}
    \cup {ListPlan}
    \cup {CleanupPlan(b) : b \in BOOLEAN}

\* what the locks do not touch
LockLeaves ==
    <<users, rooms, connections, current_user, inbox, peerClosed, outbox,
      sent, last, registered, issued, cleanups, stalled, client, wire,
      encoded, decoded>>

\* the mutexes in a sequence
Range(q) == {q[i] : i \in DOMAIN q}

\* every guard of thread s is dropped
Dropped(s) == [m \in Mutexes |-> IF held[m] = s THEN None ELSE held[m]]

\* process_message calls a handler, or handle_client calls cleanup_user
Call(s, plan) ==
    /\ pc[s] = "reading"
    /\ pc' = [pc EXCEPT ![s] = "locking"]
    /\ thread' = [thread EXCEPT ![s].wants = plan]
    /\ UNCHANGED <<held, poisoned, LockLeaves>>

\* the next Mutex::lock().unwrap() of the handler.  The step is not enabled
\* while another thread holds the mutex: the thread waits
Lock(s) ==
    /\ pc[s] = "locking"
    /\ thread[s].wants # <<>>
    /\ LET m == Head(thread[s].wants)
           H == Range(thread[s].got)
       IN IF Relock(H, m) THEN
              \E how \in RelockOutcomes :
                 IF how = "deadlock" THEN
                     /\ pc' = [pc EXCEPT ![s] = "deadlocked"]
                     /\ UNCHANGED <<held, poisoned, thread>>
                 ELSE
                     /\ pc' = [pc EXCEPT ![s] = "panicked"]
                     /\ held' = Dropped(s)
                     /\ poisoned' = poisoned \cup H
                     /\ thread' = [thread EXCEPT ![s] = Idle]
          ELSE /\ held[m] = None
               /\ IF m \in poisoned THEN
                      /\ pc' = [pc EXCEPT ![s] = "panicked"]
                      /\ held' = Dropped(s)
                      /\ poisoned' = poisoned \cup H
                      /\ thread' = [thread EXCEPT ![s] = Idle]
                  ELSE
                      /\ held' = [held EXCEPT ![m] = s]
                      /\ thread' = [thread EXCEPT ![s].wants = Tail(@),
                                                  ![s].got = Append(@, m)]
                      /\ UNCHANGED <<pc, poisoned>>
    /\ UNCHANGED LockLeaves

\* the handler returns: its guards are dropped
Return(s) ==
    /\ pc[s] = "locking"
    /\ thread[s].wants = <<>>
    /\ pc' = [pc EXCEPT ![s] = "reading"]
    /\ held' = Dropped(s)
    /\ thread' = [thread EXCEPT ![s] = Idle]
    /\ UNCHANGED <<poisoned, LockLeaves>>

LockNext ==
    \/ \E s \in Sessions : Accept(s)
    \/ \E s \in Sessions, plan \in Plans : Call(s, plan)
    \/ \E s \in Sessions : Lock(s)
    \/ \E s \in Sessions : Return(s)

LockSpec == Init /\ [][LockNext]_vars

\* the global order of the claim
Rank == [m \in Mutexes |->
           IF m = "users" THEN 1 ELSE IF m = "rooms" THEN 2 ELSE 3]

\* thread s waits for a mutex that thread t holds
WaitsFor(s, t) ==
    /\ pc[s] \in {"locking", "deadlocked"}
    /\ thread[s].wants # <<>>
    /\ held[Head(thread[s].wants)] = t

\* C37: the mutexes a thread holds were locked in the order users, rooms,
\* connections, and no two threads wait for each other.
C37_LockOrder ==
    /\ \A s \in Sessions :
          \A i, j \in DOMAIN thread[s].got :
              i < j => Rank[thread[s].got[i]] < Rank[thread[s].got[j]]
    /\ \A s, t \in Sessions :
          s # t => ~(WaitsFor(s, t) /\ WaitsFor(t, s))

\* a thread holds the three mutexes, locked one after the other, and the
\* other thread, which holds none, waits for one of them
C37_Witness ==
    \E s, t \in Sessions :
        /\ s # t
        /\ thread[s].got = <<"users", "rooms", "connections">>
        /\ pc[s] = "locking"
        /\ thread[t].got = <<>>
        /\ WaitsFor(t, s)

\* ----------------------------------------------------- records and lists
\* C38: for every registered user u and every room r, u's record names r
\* as current_room exactly when u is in the member list of r; a user with
\* no current room is in no member list.
C38_RecordMatchesLists ==
    \A u \in DOMAIN users :
        \A r \in RoomNames :
            (users[u].current_room = r) <=> Contains(UsersOf(rooms, r), u)

\* ------------------------------------------------ unauthenticated close
\* C39: the step in which a session that never authenticated leaves its
\* loop (Disconnect, decode error or end of stream) ends the thread without
\* a call of cleanup_user: the user map, the member lists and the connection
\* map are unchanged, no mutex is touched and nothing is broadcast.
C39_UnauthenticatedCloseIsSilent ==
    [][\A s \in Sessions :
          (/\ pc[s] = "reading"
           /\ pc'[s] # "reading"
           /\ last'[s].msg.type \in ExitTypes
           /\ current_user[s] = None)
          => /\ pc'[s] = "closed"
             /\ cleanups'[s] = cleanups[s]
             /\ users' = users
             /\ rooms' = rooms
             /\ connections' = connections
             /\ held' = held
             /\ poisoned' = poisoned
             /\ issued' = issued
             /\ outbox' = outbox]_vars

\* a session was closed without ever authenticating while a user is
\* registered, has a connection handle and is in a room
C39_Witness ==
    \E s \in Sessions :
        /\ pc[s] = "closed"
        /\ current_user[s] = None
        /\ registered[s] = {}
        /\ cleanups[s] = 0
        /\ \E u \in DOMAIN users :
              /\ u \in DOMAIN connections
              /\ Contains(UsersOf(rooms, CurrentRoomOf(users, u)), u)

\* ------------------------------------------------- the ChatClient methods
\* The methods of ChatClient called in any order by a program that keeps
\* the object after disconnect, on a connection that may break.

\* the connection of a logged-in client breaks (the server process ends, the
\* network resets the connection): from then on its writes fail, and the
\* session thread finds the stream at its end
ConnectionLost(s) ==
    /\ client[s].pc = "commands"
    /\ client[s].stream
    /\ ~client[s].broken
    /\ client' = [client EXCEPT ![s].broken = TRUE]
    /\ peerClosed' = [peerClosed EXCEPT ![s] = TRUE]
    /\ UNCHANGED <<ClientLeaves, inbox, sent>>

\* a method returns Err without having written anything
Refused(s, m) ==
    /\ client' = [client EXCEPT ![s].request = m, ![s].result = "Err"]
    /\ UNCHANGED <<ClientLeaves, inbox, sent, peerClosed>>

\* join_room lines 470-489: Err when there is no stream (line 487) or when
\* the write fails (`?` at line 473)
join_room(s, r) ==
    /\ client[s].pc = "commands"
    /\ IF ~client[s].stream \/ client[s].broken THEN Refused(s, JoinRoom(r))
       ELSE JoinCmd(s, r)

\* list_rooms lines 511-530
list_rooms(s) ==
    /\ client[s].pc = "commands"
    /\ IF ~client[s].stream \/ client[s].broken THEN Refused(s, ListRooms)
       ELSE RoomsCmd(s)

\* send_chat_message lines 498-509: a stream and a current room are both
\* required (line 499)
send_chat_message(s, c) ==
    /\ client[s].pc = "commands"
    /\ IF ~client[s].stream \/ client[s].current_room = None
       THEN Refused(s, SendMessage("", c))
       ELSE IF client[s].broken
       THEN Refused(s, SendMessage(client[s].current_room, c))
       ELSE ChatCmd(s, c)

\* disconnect lines 569-579: Disconnect is written when there is a stream;
\* when the write fails `?` (line 572) returns the error at once, before
\* the three fields are cleared (lines 574-576)
disconnect(s) ==
    LET cleared == [client EXCEPT ![s].request = Disconnect,
                                  ![s].result = "Ok(())",
                                  ![s].stream = FALSE,
                                  ![s].username = None,
                                  ![s].current_room = None,
                                  ![s].listening = FALSE]
    IN /\ client[s].pc = "commands"
       /\ IF ~client[s].stream THEN
              /\ client' = cleared
              /\ UNCHANGED <<inbox, sent, peerClosed>>
          ELSE IF client[s].broken THEN
              /\ client' = [client EXCEPT ![s].request = Disconnect,
                                          ![s].result = "Err"]
              /\ UNCHANGED <<inbox, sent, peerClosed>>
          ELSE
              /\ ClientWrite(s, Disconnect)
              /\ client' = cleared
              /\ peerClosed' = [peerClosed EXCEPT ![s] = TRUE]
       /\ UNCHANGED ClientLeaves

ApiNext ==
    \/ \E s \in Sessions : ClientConnect(s)
    \/ \E s \in Sessions : Accept(s)
    \/ \E s \in Sessions, u \in Usernames : Login(s, u)
    \/ \E s \in Sessions : LoginRead(s)
    \/ \E s \in Sessions : ConnectionLost(s)
    \/ \E s \in Sessions, r \in RoomNames : join_room(s, r)
    \/ \E s \in Sessions : JoinRead(s)
    \/ \E s \in Sessions : list_rooms(s)
    \/ \E s \in Sessions : RoomsRead(s)
    \/ \E s \in Sessions, c \in Contents : send_chat_message(s, c)
    \/ \E s \in Sessions : disconnect(s)
    \/ \E s \in Sessions : HandleConnect(s)
    \/ \E s \in Sessions : HandleJoinRoom(s)
    \/ \E s \in Sessions : HandleListRooms(s)
    \/ \E s \in Sessions : HandleDisconnect(s)
    \/ \E s \in Sessions : StreamClosed(s)

ApiSpec == Init /\ [][ApiNext]_vars

\* a method of the client of s is called and returns or sends in this step
Called(s, types) ==
    /\ client[s].pc = "commands"
    /\ client'[s].request.type \in types
    /\ \/ client'[s].request # client[s].request
       \/ client'[s].result # client[s].result

\* C40: once disconnect has returned the client has no stream, no username
\* and no current_room; a call of join_room, list_rooms or send_chat_message
\* on a client without stream, and a call of send_chat_message on a client
\* without current_room, returns an error and writes nothing.
C40_DisconnectClears ==
    [][\A s \in Sessions :
          /\ (Called(s, {"Disconnect"}) /\ client'[s].pc = "commands")
             => /\ ~client'[s].stream
                /\ client'[s].username = None
                /\ client'[s].current_room = None
          /\ (Called(s, {"JoinRoom", "ListRooms", "SendMessage"})
              /\ ~client[s].stream)
             => (client'[s].result = "Err" /\ inbox' = inbox /\ sent' = sent)
          /\ (Called(s, {"SendMessage"}) /\ client[s].current_room = None)
             => (client'[s].result = "Err" /\ inbox' = inbox /\ sent' = sent)]_vars

====
